---- MODULE Spec2Model ----
(***************************************************************************)
(* Tool-call orchestration loop with staged write confirmation             *)
(* (chat_service.py, post_handler.py, ai_services.py).                     *)
(*                                                                         *)
(* One session (one user_state dict) is modelled.  ChatService.handle and  *)
(* ChatService.confirm_post are split at their suspension points: the      *)
(* await of get_ai_completion and the await of mcp_call_tool.  The code    *)
(* between two suspension points runs without interruption on the event    *)
(* loop and is one step.                                                   *)
(*                                                                         *)
(* Encoding of Python values:                                              *)
(*   - a text (str) is a sequence of tokens; a token is a TLA+ string that *)
(*     stands for a run of characters (a marker, whitespace, a sentence,   *)
(*     a JSON document);                                                   *)
(*   - a dict parsed from JSON is a function from its keys to the JSON     *)
(*     literal of each value ("500", "null", "\"Mumbai\"");                *)
(*   - a Python dict is a function whose domain is the keys present.       *)
(***************************************************************************)
EXTENDS Integers, Sequences, FiniteSets, TLC

VARIABLES
    user_state,     \* the session's dict: "messages", "mcp_tools" and, when a
                    \* write is staged, "pending_tool_payload"/"pending_tool_name"
    pc,             \* where the session's coroutine is suspended
    tool_calls,     \* tool_calls of the round being processed
    tc_index,       \* position in tool_calls of the call in flight
    post_call,      \* the write in flight in execute_pending_post_core
    ai_request,     \* messages argument of the provider call in flight
    ai_calls,       \* number of get_ai_completion invocations so far
    gateway_calls,  \* log of mcp_call_tool invocations
    next_id,        \* next tool-call id the provider assigns
    turns,          \* number of handle invocations so far
    confirms,       \* number of confirm_post invocations so far
    ret,            \* outcome of the last finished handle / confirm_post
    fn_args,        \* arguments of a helper function called on its own
    fn_result,      \* what that call returned (one entry per application)
    CLIENT_STATES,  \* flask_socket_server.py: sid -> reference to its dict
    heap,           \* the dict objects the adapter created, by reference
    TOOLS_CACHE,    \* flask_socket_server.py: the cached tool-schema list
    tasks,          \* background tasks started by the adapter's handlers
    clients,        \* per sid: "new", "connected" or "disconnected"
    _mcp_client,    \* ai_services.py: the shared gateway client, or NoClient
    _mcp_lock,      \* ai_services.py: the coroutine holding the lock, or 0
    callers,        \* coroutines calling the gateway client functions
    connections,    \* the gateway connections created so far, by client
    bot_messages,   \* telegram_bot.py: `messages` of message_handler
    rescued_id_from_text  \* telegram_bot.py: the id found in the user text

vars == <<user_state, pc, tool_calls, tc_index, post_call, ai_request, ai_calls,
          gateway_calls, next_id, turns, confirms, ret, fn_args, fn_result,
          CLIENT_STATES, heap, TOOLS_CACHE, tasks, clients,
          _mcp_client, _mcp_lock, callers, connections,
          bot_messages, rescued_id_from_text>>

\* The variables of the session, and those of a helper called on its own.
session_vars == <<user_state, pc, tool_calls, tc_index, post_call, ai_request,
                  ai_calls, gateway_calls, next_id, turns, confirms, ret>>
fn_vars == <<fn_args, fn_result>>
server_vars == <<CLIENT_STATES, heap, TOOLS_CACHE, tasks, clients>>
mcp_vars == <<_mcp_client, _mcp_lock, callers, connections>>
bot_vars == <<bot_messages, rescued_id_from_text>>

(***************************************************************************)
(* Bounds of the model.                                                    *)
(***************************************************************************)
MaxTurns == 2       \* handle invocations in a behaviour
MaxAiCalls == 2     \* get_ai_completion invocations in a behaviour
MaxToolCalls == 2   \* tool-call requests the provider issues in a behaviour
MaxConfirms == 2    \* confirm_post invocations in a behaviour
MaxArgs == 3        \* keys of an argument mapping given to the scrub
MaxTextLen == 4     \* tokens of a final text given to the extractor
MaxSessions == 2    \* Socket.IO clients (sids) in a behaviour
MaxEvents == 3      \* send_message / confirm_post events in a behaviour
MaxRounds == 1      \* background tasks whose provider asks for tool calls
MaxWorkers == 2     \* background tasks unfinished at the same time
MaxCallers == 4     \* calls of the gateway client functions in a behaviour
MaxBlocks == 2      \* marker blocks in one final answer

(***************************************************************************)
(* Python None where a text is expected.                                   *)
(***************************************************************************)
None == <<"None">>
\* Python None where a dict, a str is expected (dict.pop(key, None), a
\* returned None).
NoneDict == ("None" :> "None")
NoneStr == "None"

(***************************************************************************)
(* Texts.                                                                  *)
(***************************************************************************)
OPEN_MARKER == "[TOOL_ARGS_JSON]"
CLOSE_MARKER == "[/TOOL_ARGS_JSON]"
SPACE == " "
NEWLINE == "\n"
Padding == "<50,000 spaces>"
Whitespace == {SPACE, NEWLINE, Padding}

SYSTEM_PROMPT == <<"You are CemTemChat AI">>

\* JSON documents the provider writes between the markers or as arguments.
JDvr == "{\"dealerTotalPotential\": 120, \"todayCollectionRupees\": 0}"
JSales == "{\"orderTotal\": 500, \"estimatedDelivery\": \"2025-01-01\"}"
JHintTvr == "{\"__tool\": \"post_tvr_report\", \"orderTotal\": 500, \"estimatedDelivery\": \"2025-01-01\"}"
JEmptyObject == "{}"
JList == "[1]"
JNumber == "7"
JNull == "null"
JInvalid == "{oops"
JJunkArgs == "{\"inputSchema\": {}, \"userId\": 5, \"region\": null}"
JRegionArgs == "{\"region\": \"Mumbai\"}"
JDealerId == "{\"dealer_id\": 7}"
JNameId == "{\"name\": 5}"
JNameZero == "{\"name\": 0}"
JTwoIds == "{\"title\": \"x\", \"name\": 3, \"required\": 9}"
JRequiredTrue == "{\"required\": true}"
JNullId == "{\"dealer_id\": null}"
\* A hint that names a tool outside the closed set, and no signature.
JHintOther == "{\"__tool\": \"get_dealers_list\", \"notes\": \"call me\"}"
\* Objects of exactly 50,000 and of 50,001 characters.
JMax == "{\"notes\": \"<49,987 characters>\"}"
JHuge == "{\"notes\": \"<49,988 characters>\"}"

(***************************************************************************)
(* json.loads on one document: [kind, val]; kind is "dict", "other" (a     *)
(* list, number, string or null) or "error" (it raises).                   *)
(***************************************************************************)
JsonDict(f) == [kind |-> "dict", val |-> f]
JsonOther == [kind |-> "other", val |-> <<>>]
JsonError == [kind |-> "error", val |-> <<>>]

json_loads_doc(doc) ==
    CASE doc = JDvr -> JsonDict(("dealerTotalPotential" :> "120") @@ ("todayCollectionRupees" :> "0"))
      [] doc = JSales -> JsonDict(("orderTotal" :> "500") @@ ("estimatedDelivery" :> "\"2025-01-01\""))
      [] doc = JHintTvr -> JsonDict(("__tool" :> "\"post_tvr_report\"") @@ ("orderTotal" :> "500")
                                    @@ ("estimatedDelivery" :> "\"2025-01-01\""))
      [] doc = JEmptyObject -> JsonDict(<<>>)
      [] doc = JJunkArgs -> JsonDict(("inputSchema" :> "{}") @@ ("userId" :> "5") @@ ("region" :> "null"))
      [] doc = JRegionArgs -> JsonDict(("region" :> "\"Mumbai\""))
      [] doc = JDealerId -> JsonDict(("dealer_id" :> "7"))
      [] doc = JNameId -> JsonDict(("name" :> "5"))
      [] doc = JNameZero -> JsonDict(("name" :> "0"))
      [] doc = JTwoIds -> JsonDict(("title" :> "\"x\"") @@ ("name" :> "3") @@ ("required" :> "9"))
      [] doc = JRequiredTrue -> JsonDict(("required" :> "true"))
      [] doc = JNullId -> JsonDict(("dealer_id" :> "null"))
      [] doc = JHintOther -> JsonDict(("__tool" :> "\"get_dealers_list\"") @@ ("notes" :> "\"call me\""))
      [] doc = JMax -> JsonDict(("notes" :> "\"<49,987 characters>\""))
      [] doc = JHuge -> JsonDict(("notes" :> "\"<49,988 characters>\""))
      [] doc = JList -> JsonOther
      [] doc = JNumber -> JsonOther
      [] doc = JNull -> JsonOther
      [] OTHER -> JsonError

\* json.loads on a text: the text decodes only if it is exactly one document.
json_loads(text) ==
    IF Len(text) = 1 THEN json_loads_doc(text[1]) ELSE JsonError

\* len(): characters of a token, characters of a text.
TokLen(tok) ==
    CASE tok = OPEN_MARKER -> 16
      [] tok = CLOSE_MARKER -> 17
      [] tok = SPACE -> 1
      [] tok = NEWLINE -> 1
      [] tok = Padding -> 50000
      [] tok = JMax -> 50000
      [] tok = JHuge -> 50001
      [] tok = JEmptyObject -> 2
      [] tok = JList -> 3
      [] tok = JNumber -> 1
      [] tok = JNull -> 4
      [] tok = JInvalid -> 5
      [] tok = JDvr -> 57
      [] tok = JSales -> 54
      [] tok = JHintTvr -> 83
      [] tok = JHintOther -> 50
      [] OTHER -> 20

RECURSIVE StrLen(_)
StrLen(text) == IF text = <<>> THEN 0 ELSE TokLen(Head(text)) + StrLen(Tail(text))

\* str.strip(): leading and trailing whitespace removed.
RECURSIVE LStrip(_)
LStrip(text) ==
    IF text # <<>> /\ Head(text) \in Whitespace THEN LStrip(Tail(text)) ELSE text

RECURSIVE RStrip(_)
RStrip(text) ==
    IF text # <<>> /\ text[Len(text)] \in Whitespace
    THEN RStrip(SubSeq(text, 1, Len(text) - 1))
    ELSE text

Strip(text) == RStrip(LStrip(text))

\* str.upper() of a token, of a text.
TokUpper(tok) ==
    CASE tok = "y" -> "Y"
      [] tok = "n" -> "N"
      [] tok = "list all dealers in Mumbai" -> "LIST ALL DEALERS IN MUMBAI"
      [] OTHER -> tok
Upper(text) == [i \in 1..Len(text) |-> TokUpper(text[i])]

(***************************************************************************)
(* dict helpers.                                                           *)
(***************************************************************************)
Has(d, k) == k \in DOMAIN d
Put(d, k, v) == [x \in DOMAIN d \cup {k} |-> IF x = k THEN v ELSE d[x]]
Pop(d, k) == [x \in DOMAIN d \ {k} |-> d[x]]

(***************************************************************************)
(* post_handler.py                                                         *)
(***************************************************************************)
STORED_PAYLOAD_KEY == "pending_tool_payload"
STORED_TOOL_NAME_KEY == "pending_tool_name"
MAX_PAYLOAD_CHARS == 50000
ALLOWED_POST_TOOLS == {"post_tvr_report", "post_dvr_report", "post_sales_order"}

\* The JSON literal of a Python str (a tool name).
JsonStr(s) ==
    CASE s = "post_tvr_report" -> "\"post_tvr_report\""
      [] s = "post_dvr_report" -> "\"post_dvr_report\""
      [] s = "post_sales_order" -> "\"post_sales_order\""
      [] OTHER -> "\"?\""

\* Mutant of PAYLOAD_REGEX_search: a block left open runs to the end of the
\* text.
PAYLOAD_REGEX_searchToEnd(text) ==
    LET opens == {i \in 1..Len(text) : text[i] = OPEN_MARKER}
        start == IF opens = {} THEN 0
                 ELSE CHOOSE i \in opens : \A j \in opens : i <= j
        closes == {j \in 1..Len(text) : j > start /\ text[j] = CLOSE_MARKER}
        end == IF closes = {} THEN Len(text) + 1
               ELSE CHOOSE j \in closes : \A k \in closes : j <= k
    IN  IF start = 0
        THEN [found |-> FALSE, start |-> 0, end |-> 0, group1 |-> <<>>]
        ELSE [found |-> TRUE, start |-> start, end |-> end,
              group1 |-> SubSeq(text, start + 1, end - 1)]

\* PAYLOAD_REGEX.search: the leftmost opening marker and the first closing
\* marker after it (non-greedy, DOTALL).
PAYLOAD_REGEX_search(text) ==
    LET opens == {i \in 1..Len(text) : text[i] = OPEN_MARKER}
        start == IF opens = {} THEN 0
                 ELSE CHOOSE i \in opens : \A j \in opens : i <= j
        closes == {j \in 1..Len(text) : j > start /\ text[j] = CLOSE_MARKER}
        end == IF closes = {} THEN 0
               ELSE CHOOSE j \in closes : \A k \in closes : j <= k
    IN  IF start = 0 \/ end = 0
        THEN [found |-> FALSE, start |-> 0, end |-> 0, group1 |-> <<>>]
        ELSE [found |-> TRUE, start |-> start, end |-> end,
              group1 |-> SubSeq(text, start + 1, end - 1)]

\* Mutant of PAYLOAD_REGEX_sub: the content of the block removed, its two
\* markers left in the text.
PAYLOAD_REGEX_subKeepsMarkers(text) ==
    LET m == PAYLOAD_REGEX_search(text)
    IN  IF ~m.found THEN text
        ELSE SubSeq(text, 1, m.start) \o SubSeq(text, m.end, Len(text))

\* Mutant of PAYLOAD_REGEX_sub: only the first match removed (count=1).
PAYLOAD_REGEX_subFirstOnly(text) ==
    LET m == PAYLOAD_REGEX_search(text)
    IN  IF ~m.found THEN text
        ELSE SubSeq(text, 1, m.start - 1) \o SubSeq(text, m.end + 1, Len(text))

\* PAYLOAD_REGEX.sub('', text): every non-overlapping match removed.
RECURSIVE PAYLOAD_REGEX_sub(_)
PAYLOAD_REGEX_sub(text) ==
    LET m == PAYLOAD_REGEX_search(text)
    IN  IF ~m.found THEN text
        ELSE SubSeq(text, 1, m.start - 1)
             \o PAYLOAD_REGEX_sub(SubSeq(text, m.end + 1, Len(text)))

\* A Python str from its JSON literal ("" for a literal that is no string).
JsonStrValue(literal) ==
    CASE literal = "\"post_tvr_report\"" -> "post_tvr_report"
      [] literal = "\"post_dvr_report\"" -> "post_dvr_report"
      [] literal = "\"post_sales_order\"" -> "post_sales_order"
      [] literal = "\"get_dealers_list\"" -> "get_dealers_list"
      [] literal = "\"POST_TVR_REPORT\"" -> "POST_TVR_REPORT"
      [] OTHER -> ""

\* Mutant of _pick_tool_name: `hint in ALLOWED_POST_TOOLS` left out.
_pick_tool_nameAnyHint(payload) ==
    IF Has(payload, "__tool") /\ JsonStrValue(payload["__tool"]) # ""
    THEN JsonStrValue(payload["__tool"])
    ELSE IF Has(payload, "siteNameConcernedPerson") /\ Has(payload, "clientsRemarks")
    THEN "post_tvr_report"
    ELSE IF Has(payload, "dealerTotalPotential") /\ Has(payload, "todayCollectionRupees")
    THEN "post_dvr_report"
    ELSE "post_sales_order"

\* Mutant of _pick_tool_name: the DVR signature tested before the TVR one.
_pick_tool_nameDvrFirst(payload) ==
    IF Has(payload, "__tool")
       /\ \E t \in ALLOWED_POST_TOOLS : payload["__tool"] = JsonStr(t)
    THEN CHOOSE t \in ALLOWED_POST_TOOLS : payload["__tool"] = JsonStr(t)
    ELSE IF Has(payload, "dealerTotalPotential") /\ Has(payload, "todayCollectionRupees")
    THEN "post_dvr_report"
    ELSE IF Has(payload, "siteNameConcernedPerson") /\ Has(payload, "clientsRemarks")
    THEN "post_tvr_report"
    ELSE "post_sales_order"

\* Mutant of _pick_tool_name: the heuristics first, the hint as the fallback.
_pick_tool_nameHeuristicsFirst(payload) ==
    IF Has(payload, "siteNameConcernedPerson") /\ Has(payload, "clientsRemarks")
    THEN "post_tvr_report"
    ELSE IF Has(payload, "dealerTotalPotential") /\ Has(payload, "todayCollectionRupees")
    THEN "post_dvr_report"
    ELSE IF Has(payload, "orderTotal") /\ Has(payload, "estimatedDelivery")
    THEN "post_sales_order"
    ELSE IF Has(payload, "__tool")
            /\ \E t \in ALLOWED_POST_TOOLS : payload["__tool"] = JsonStr(t)
    THEN CHOOSE t \in ALLOWED_POST_TOOLS : payload["__tool"] = JsonStr(t)
    ELSE "post_sales_order"

_pick_tool_name(payload) ==
    IF Has(payload, "__tool")
       /\ \E t \in ALLOWED_POST_TOOLS : payload["__tool"] = JsonStr(t)
    THEN CHOOSE t \in ALLOWED_POST_TOOLS : payload["__tool"] = JsonStr(t)
    ELSE IF Has(payload, "siteNameConcernedPerson") /\ Has(payload, "clientsRemarks")
    THEN "post_tvr_report"
    ELSE IF Has(payload, "dealerTotalPotential") /\ Has(payload, "todayCollectionRupees")
    THEN "post_dvr_report"
    ELSE IF Has(payload, "orderTotal") /\ Has(payload, "estimatedDelivery")
    THEN "post_sales_order"
    ELSE "post_sales_order"

\* Mutant of _guard_payload: the isinstance(obj, dict) test left out.
_guard_payloadAnyJson(json_text) ==
    IF StrLen(json_text) > MAX_PAYLOAD_CHARS
    THEN [ok |-> FALSE, obj |-> <<>>]
    ELSE LET obj == json_loads(json_text)
         IN  IF obj.kind # "error"
             THEN [ok |-> TRUE, obj |-> obj.val]
             ELSE [ok |-> FALSE, obj |-> <<>>]

\* [ok, obj]: ok is FALSE where the code returns None.
_guard_payload(json_text) ==
    IF StrLen(json_text) > MAX_PAYLOAD_CHARS
    THEN [ok |-> FALSE, obj |-> <<>>]
    ELSE LET obj == json_loads(json_text)
         IN  IF obj.kind = "dict"
             THEN [ok |-> TRUE, obj |-> obj.val]
             ELSE [ok |-> FALSE, obj |-> <<>>]

\* Mutant of check_and_store_post_request_core: the name stored with
\* setdefault, so that the name of an earlier staged write stays.
check_and_store_post_request_coreKeepsName(final_answer, state) ==
    LET unchanged == [is_confirmation_request |-> FALSE, display_text |-> final_answer,
                      tool_name |-> NoneStr, payload |-> NoneDict, user_state |-> state]
        payload_match == PAYLOAD_REGEX_search(final_answer)
        payload == _guard_payload(Strip(payload_match.group1))
        tool_name == _pick_tool_name(payload.obj)
        stored == Put(state, STORED_PAYLOAD_KEY, payload.obj)
    IN  IF ~payload_match.found \/ ~payload.ok
        THEN unchanged
        ELSE [is_confirmation_request |-> TRUE,
              display_text |-> Strip(PAYLOAD_REGEX_sub(final_answer)),
              tool_name |-> tool_name, payload |-> payload.obj,
              user_state |-> IF Has(state, STORED_TOOL_NAME_KEY) THEN stored
                             ELSE Put(stored, STORED_TOOL_NAME_KEY, tool_name)]

\* Mutant of check_and_store_post_request_core: a block whose payload is
\* rejected is still announced as a confirmation request; nothing is stored.
check_and_store_post_request_coreAnnouncesRejected(final_answer, state) ==
    LET payload_match == PAYLOAD_REGEX_search(final_answer)
        payload == _guard_payload(Strip(payload_match.group1))
        tool_name == _pick_tool_name(payload.obj)
    IN  IF ~payload_match.found
        THEN [is_confirmation_request |-> FALSE, display_text |-> final_answer,
              tool_name |-> NoneStr, payload |-> NoneDict, user_state |-> state]
        ELSE IF ~payload.ok
        THEN [is_confirmation_request |-> TRUE, display_text |-> final_answer,
              tool_name |-> NoneStr, payload |-> NoneDict, user_state |-> state]
        ELSE [is_confirmation_request |-> TRUE,
              display_text |-> Strip(PAYLOAD_REGEX_sub(final_answer)),
              tool_name |-> tool_name, payload |-> payload.obj,
              user_state |-> Put(Put(state, STORED_PAYLOAD_KEY, payload.obj),
                                 STORED_TOOL_NAME_KEY, tool_name)]

\* The returned tuple and the user_state the call leaves behind.
check_and_store_post_request_core(final_answer, state) ==
    LET unchanged == [is_confirmation_request |-> FALSE, display_text |-> final_answer,
                      tool_name |-> NoneStr, payload |-> NoneDict, user_state |-> state]
        payload_match == PAYLOAD_REGEX_search(final_answer)
        json_string == Strip(payload_match.group1)
        payload == _guard_payload(json_string)
        tool_name == _pick_tool_name(payload.obj)
    IN  IF final_answer = <<>> \/ ~(\E i \in 1..Len(final_answer) : final_answer[i] = OPEN_MARKER)
        THEN unchanged
        ELSE IF ~payload_match.found
        THEN unchanged
        ELSE IF ~payload.ok
        THEN unchanged
        ELSE [is_confirmation_request |-> TRUE,
              display_text |-> Strip(PAYLOAD_REGEX_sub(final_answer)),
              tool_name |-> tool_name, payload |-> payload.obj,
              user_state |-> Put(Put(state, STORED_PAYLOAD_KEY, payload.obj),
                                 STORED_TOOL_NAME_KEY, tool_name)]

\* str.replace('_', ' ').title() of a tool name.
Title(tool_name) ==
    CASE tool_name = "post_tvr_report" -> "Post Tvr Report"
      [] tool_name = "post_dvr_report" -> "Post Dvr Report"
      [] tool_name = "post_sales_order" -> "Post Sales Order"
      [] OTHER -> "?"

(***************************************************************************)
(* chat_service.py: the argument scrub of the tool-call loop.              *)
(***************************************************************************)
CLEAN == {"inputSchema", "name", "parameters", "title", "description",
          "outputSchema", "icons", "_meta", "annotations", "required"}

\* Mutant of Sanitize: `and v` in place of `and v is not None`.
SanitizeTruthy(args) ==
    [k \in {x \in DOMAIN args : x \notin CLEAN /\ args[x] \notin {"null", "0", "\"\"", "{}"}}
       |-> args[k]]

Sanitize(args) ==
    [k \in {x \in DOMAIN args : x \notin CLEAN /\ args[x] # "null"} |-> args[k]]

\* telegram_bot.py: the same scrub, with the keys in a list.
CLEAN_KEYS == <<"inputSchema", "name", "parameters", "title", "description",
                "outputSchema", "icons", "_meta", "annotations", "required">>

cleaned_args(function_args) ==
    [k \in {x \in DOMAIN function_args :
               /\ ~(\E i \in 1..Len(CLEAN_KEYS) : CLEAN_KEYS[i] = x)
               /\ function_args[x] # "null"} |-> function_args[k]]

(***************************************************************************)
(* The external collaborators: what the provider may answer and what the   *)
(* gateway may return or raise.                                            *)
(***************************************************************************)
ToolNames == {"get_dealers_list", "post_sales_order"}
RawArguments == {JJunkArgs, JInvalid, JList}
ToolResults == {"CallToolResult(3 records)"}
Exceptions == {"Connection refused"}
UserTexts == {<<"list all dealers in Mumbai">>}
ToolSchemaLists == {<<>>, <<"get_dealers_list", "post_sales_order">>}

FinalContents ==
    { None,
      <<"Here are three dealers in Mumbai.">>,
      <<"Reply Y to submit or N to cancel.", NEWLINE, OPEN_MARKER, NEWLINE, JDvr, NEWLINE, CLOSE_MARKER>>,
      <<"Reply Y to submit.", OPEN_MARKER, JEmptyObject, CLOSE_MARKER>>,
      <<"Reply Y to submit.", OPEN_MARKER, JList, CLOSE_MARKER>> }

\* json.dumps(result, default=pydantic_json_default)
json_dumps(result) ==
    CASE result = "CallToolResult(3 records)" -> "[{\"id\": 1}, {\"id\": 2}, {\"id\": 3}]"
      [] OTHER -> "\"?\""

(***************************************************************************)
(* Messages.                                                               *)
(***************************************************************************)
SystemMessage == [role |-> "system", content |-> SYSTEM_PROMPT]
UserMessage(text) == [role |-> "user", content |-> text]
AssistantMessage(content, calls) == [role |-> "assistant", content |-> content, tool_calls |-> calls]
ToolMessage(tc, content) == [role |-> "tool", tool_call_id |-> tc.id, content |-> content]
ToolCall(id, name, arguments) ==
    [id |-> id, type |-> "function", function |-> [name |-> name, arguments |-> arguments]]

\* Mutant of AppendMessage: a window on the history; once it holds four
\* messages the oldest after the system message is dropped.
AppendMessageWindowed(msgs, m) ==
    IF Len(msgs) >= 4 THEN <<msgs[1]>> \o SubSeq(msgs, 3, Len(msgs)) \o <<m>> ELSE Append(msgs, m)

AppendMessage(msgs, m) == Append(msgs, m)

\* The tool-call lists the provider may return: n requests, ids assigned
\* by the provider, fresh and in increasing order.
ToolCallLists(first_id, n) ==
    { [i \in 1..n |-> ToolCall(first_id + i - 1, c[i][1], c[i][2])] :
        c \in [1..n -> ToolNames \X RawArguments] }

NoCall == [tool_name |-> "", params |-> <<>>]
NoRequest == [messages |-> <<>>, tools |-> <<>>]
NoReturn == [op |-> "", text |-> <<>>, flag |-> FALSE, raised |-> FALSE, core_text |-> <<>>]

\* handle returns (display_text, awaiting_confirmation), or raises.
HandleReturn(display, awaiting) ==
    [op |-> "handle", text |-> display, flag |-> awaiting, raised |-> FALSE, core_text |-> <<>>]
HandleRaise(error) ==
    [op |-> "handle", text |-> <<error>>, flag |-> FALSE, raised |-> TRUE, core_text |-> <<>>]

\* confirm_post: execute_pending_post_core returned (executed, response, _);
\* the text returned is the response if executed, "Nothing to submit." if not.
ConfirmReturn(executed, response) ==
    [op |-> "confirm_post",
     text |-> IF executed THEN response ELSE <<"Nothing to submit.">>,
     flag |-> executed, raised |-> FALSE, core_text |-> response]

Messages == user_state["messages"]
ToolCallsIssued == next_id - 1

(***************************************************************************)
(* Init: the session as an adapter creates it (flask_socket_server.py      *)
(* on_connect): the system message seeded, the cached tool list, nothing   *)
(* staged.                                                                 *)
(***************************************************************************)
NewSession(tools) == ("messages" :> <<SystemMessage>>) @@ ("mcp_tools" :> tools)

\* Nothing in flight, nothing called yet.
Quiescent ==
    /\ pc = "idle"
    /\ tool_calls = <<>>
    /\ tc_index = 0
    /\ post_call = NoCall
    /\ ai_request = NoRequest
    /\ ai_calls = 0
    /\ gateway_calls = <<>>
    /\ next_id = 1
    /\ turns = 0
    /\ confirms = 0
    /\ ret = NoReturn

\* The adapter's and the gateway client's module state as imported.
NoClient == 0
NoServer ==
    /\ CLIENT_STATES = <<>>
    /\ heap = <<>>
    /\ TOOLS_CACHE = <<>>
    /\ tasks = <<>>
    /\ clients = <<>>
NoGateway ==
    /\ _mcp_client = NoClient
    /\ _mcp_lock = 0
    /\ callers = <<>>
    /\ connections = <<>>
\* No Telegram message is being handled.
NoBot ==
    /\ bot_messages = <<>>
    /\ rescued_id_from_text = NoneStr

Init ==
    /\ \E tools \in ToolSchemaLists : user_state = NewSession(tools)
    /\ Quiescent
    /\ NoServer
    /\ NoGateway
    /\ NoBot
    /\ fn_args = <<>>
    /\ fn_result = <<>>

(***************************************************************************)
(* ChatService.handle                                                      *)
(***************************************************************************)
\* Loop head: the provider is invoked with the history and the tools.
InvokeProvider(msgs) ==
    /\ pc' = "get_ai_completion"
    /\ ai_request' = [messages |-> msgs, tools |-> user_state["mcp_tools"]]
    /\ ai_calls' = ai_calls + 1
    /\ tool_calls' = <<>>
    /\ tc_index' = 0
    /\ UNCHANGED <<gateway_calls, ret>>

\* Mutant of CallAt: the calls of a round taken in reverse order.
CallAtReversed(calls, k) == calls[Len(calls) - k + 1]

\* `for tc in tool_calls`: the k-th call processed in a round.
CallAt(calls, k) == calls[k]

\* Mutant of LoadArguments: json.loads without the try/except around it.
LoadArgumentsUnguarded(raw) ==
    LET parsed == json_loads_doc(IF raw = "" THEN "{}" ELSE raw)
    IN  IF parsed.kind = "error" THEN JsonOther ELSE parsed

\* `raw = ... or "{}"`, then json.loads(raw) in a try whose except gives {}.
LoadArguments(raw) ==
    LET parsed == json_loads_doc(IF raw = "" THEN "{}" ELSE raw)
    IN  IF parsed.kind = "error" THEN JsonDict(<<>>) ELSE parsed

\* Body of the for loop for call k, up to the await of mcp_call_tool.
\* Arguments that parse to something other than a dict make args.items()
\* raise AttributeError outside any try: handle raises to its caller.
BeginToolCall(calls, k) ==
    LET tc == CallAt(calls, k)
        fn == tc.function.name
        parsed == LoadArguments(tc.function.arguments)
        args == parsed.val
    IN  IF parsed.kind = "other"
        THEN /\ pc' = "idle"
             /\ ret' = HandleRaise("AttributeError")
             /\ tool_calls' = <<>>
             /\ tc_index' = 0
             /\ ai_request' = NoRequest
             /\ UNCHANGED <<gateway_calls, ai_calls>>
        ELSE /\ pc' = "mcp_call_tool"
             /\ gateway_calls' = Append(gateway_calls,
                    [tool_name |-> fn, params |-> Sanitize(args), caller |-> "handle"])
             /\ tool_calls' = calls
             /\ tc_index' = k
             /\ ai_request' = NoRequest
             /\ UNCHANGED <<ret, ai_calls>>

Handle(text) ==
    /\ pc = "idle"
    /\ turns < MaxTurns
    /\ ai_calls < MaxAiCalls
    /\ LET messages == IF Has(user_state, "messages") THEN user_state["messages"]
                       ELSE <<SystemMessage>>
           msgs == AppendMessage(messages, UserMessage(text))
       IN  /\ user_state' = Put(user_state, "messages", msgs)
           /\ InvokeProvider(msgs)
    /\ turns' = turns + 1
    /\ UNCHANGED <<post_call, next_id, confirms>>
    /\ UNCHANGED <<fn_vars, server_vars, mcp_vars, bot_vars>>

\* Mutant of AiReturnsNothing: the answer is appended to the history before
\* it is tested.
AiReturnsNothingAppended ==
    /\ pc = "get_ai_completion"
    /\ pc' = "idle"
    /\ ret' = HandleReturn(<<"Model returned nothing. Try again.">>, FALSE)
    /\ ai_request' = NoRequest
    /\ user_state' = Put(user_state, "messages", AppendMessage(Messages, AssistantMessage(None, <<>>)))
    /\ UNCHANGED <<tool_calls, tc_index, post_call, ai_calls,
                   gateway_calls, next_id, turns, confirms>>
    /\ UNCHANGED <<fn_vars, server_vars, mcp_vars, bot_vars>>

\* get_ai_completion returned None.
AiReturnsNothing ==
    /\ pc = "get_ai_completion"
    /\ pc' = "idle"
    /\ ret' = HandleReturn(<<"Model returned nothing. Try again.">>, FALSE)
    /\ ai_request' = NoRequest
    /\ UNCHANGED <<user_state, tool_calls, tc_index, post_call, ai_calls,
                   gateway_calls, next_id, turns, confirms>>
    /\ UNCHANGED <<fn_vars, server_vars, mcp_vars, bot_vars>>

\* The provider answered without tool calls: the final answer.
AiReturnsFinal(content) ==
    /\ pc = "get_ai_completion"
    /\ LET ai_msg == AssistantMessage(content, <<>>)
           msgs == AppendMessage(Messages, ai_msg)
           final_text == IF content = None \/ content = <<>> THEN <<"...">> ELSE content
           r == check_and_store_post_request_core(final_text, Put(user_state, "messages", msgs))
       IN  /\ user_state' = r.user_state
           /\ ret' = HandleReturn(r.display_text, r.is_confirmation_request)
    /\ pc' = "idle"
    /\ ai_request' = NoRequest
    /\ UNCHANGED <<tool_calls, tc_index, post_call, ai_calls, gateway_calls,
                   next_id, turns, confirms>>
    /\ UNCHANGED <<fn_vars, server_vars, mcp_vars, bot_vars>>

\* The provider answered with tool calls (only when it was given tools:
\* tool_choice is "none" otherwise).
AiReturnsToolCalls(calls) ==
    /\ pc = "get_ai_completion"
    /\ ai_request.tools # <<>>
    /\ ai_calls < MaxAiCalls
    /\ LET ai_msg == AssistantMessage(None, calls)
           msgs == AppendMessage(Messages, ai_msg)
       IN  user_state' = Put(user_state, "messages", msgs)
    /\ BeginToolCall(calls, 1)
    /\ next_id' = next_id + Len(calls)
    /\ UNCHANGED <<post_call, turns, confirms>>
    /\ UNCHANGED <<fn_vars, server_vars, mcp_vars, bot_vars>>

\* Mutant of EndToolCall: a cap of one round; when the round is over the
\* turn ends with an apology instead of another provider call.
EndToolCallCapped(content) ==
    LET msgs == AppendMessage(Messages, ToolMessage(CallAt(tool_calls, tc_index), content))
    IN  /\ user_state' = Put(user_state, "messages", msgs)
        /\ IF tc_index < Len(tool_calls)
           THEN BeginToolCall(tool_calls, tc_index + 1)
           ELSE /\ pc' = "idle"
                /\ ret' = HandleReturn(<<"Too many tool calls.">>, FALSE)
                /\ tool_calls' = <<>>
                /\ tc_index' = 0
                /\ UNCHANGED <<ai_request, ai_calls, gateway_calls>>
        /\ UNCHANGED <<post_call, next_id, turns, confirms>>

\* After the await of mcp_call_tool: the tool message is appended, then the
\* next call of the round, or the next round.
EndToolCall(content) ==
    LET msgs == AppendMessage(Messages, ToolMessage(CallAt(tool_calls, tc_index), content))
    IN  /\ user_state' = Put(user_state, "messages", msgs)
        /\ IF tc_index < Len(tool_calls)
           THEN BeginToolCall(tool_calls, tc_index + 1)
           ELSE InvokeProvider(msgs)
        /\ UNCHANGED <<post_call, next_id, turns, confirms>>

ToolReturns(result) ==
    /\ pc = "mcp_call_tool"
    /\ EndToolCall(<<json_dumps(result)>>)
    /\ UNCHANGED <<fn_vars, server_vars, mcp_vars, bot_vars>>

\* Mutant of ToolRaises: the error is swallowed and the coroutine stays
\* suspended on a call that is never answered again.
ToolRaisesSuspended(e) ==
    /\ pc = "mcp_call_tool"
    /\ pc' = "suspended"
    /\ UNCHANGED <<user_state, tool_calls, tc_index, post_call, ai_request, ai_calls,
                   gateway_calls, next_id, turns, confirms, ret>>
    /\ UNCHANGED <<fn_vars, server_vars, mcp_vars, bot_vars>>

ToolRaises(e) ==
    /\ pc = "mcp_call_tool"
    /\ EndToolCall(<<"Error executing tool ", CallAt(tool_calls, tc_index).function.name, ": ", e>>)
    /\ UNCHANGED <<fn_vars, server_vars, mcp_vars, bot_vars>>

(***************************************************************************)
(* ChatService.confirm_post / execute_pending_post_core                    *)
(***************************************************************************)
\* dict.pop(key, None) of a dict-valued and of a str-valued key.
PoppedPayload(state) == IF Has(state, STORED_PAYLOAD_KEY) THEN state[STORED_PAYLOAD_KEY] ELSE NoneDict
PoppedToolName(state) == IF Has(state, STORED_TOOL_NAME_KEY) THEN state[STORED_TOOL_NAME_KEY] ELSE NoneStr
\* Mutant of PopPending: only the payload key is popped.
PopPendingPayloadOnly(state) == Pop(state, STORED_PAYLOAD_KEY)

PopPending(state) == Pop(Pop(state, STORED_PAYLOAD_KEY), STORED_TOOL_NAME_KEY)

\* Mutant of Truthy: the guard before the gateway call is dropped.
TruthyAlways(pending_payload, pending_tool_name) == TRUE

\* `if pending_payload and pending_tool_name`: Python truthiness.
Truthy(pending_payload, pending_tool_name) ==
    /\ pending_payload # NoneDict /\ DOMAIN pending_payload # {}
    /\ pending_tool_name # NoneStr /\ pending_tool_name # ""

\* Up to the await of mcp_call_tool; the whole call when nothing is run.
ConfirmPost ==
    /\ pc = "idle"
    /\ confirms < MaxConfirms
    /\ confirms' = confirms + 1
    /\ LET pending_payload == PoppedPayload(user_state)
           pending_tool_name == PoppedToolName(user_state)
       IN  /\ user_state' = PopPending(user_state)
           /\ IF Truthy(pending_payload, pending_tool_name)
              THEN /\ pc' = "execute_pending_post"
                   /\ post_call' = [tool_name |-> pending_tool_name, params |-> pending_payload]
                   /\ gateway_calls' = Append(gateway_calls,
                          [tool_name |-> pending_tool_name, params |-> pending_payload,
                           caller |-> "execute_pending_post_core"])
                   /\ UNCHANGED ret
              ELSE /\ pc' = "idle"
                   /\ ret' = ConfirmReturn(FALSE, <<>>)
                   /\ UNCHANGED <<post_call, gateway_calls>>
    /\ UNCHANGED <<tool_calls, tc_index, ai_request, ai_calls, next_id, turns>>
    /\ UNCHANGED <<fn_vars, server_vars, mcp_vars, bot_vars>>

\* Mutant of PostReturns: the outcome of the write is also appended to the
\* history as an assistant message.
PostReturnsLogged(tool_result) ==
    LET response == <<"(check mark) ", Title(post_call.tool_name), " submitted.",
                      NEWLINE, NEWLINE, json_dumps(tool_result)>>
    IN  /\ pc = "execute_pending_post"
        /\ pc' = "idle"
        /\ ret' = ConfirmReturn(TRUE, response)
        /\ post_call' = NoCall
        /\ user_state' = Put(user_state, "messages",
                              AppendMessage(Messages, AssistantMessage(response, <<>>)))
        /\ UNCHANGED <<tool_calls, tc_index, ai_request, ai_calls,
                       gateway_calls, next_id, turns, confirms>>
        /\ UNCHANGED <<fn_vars, server_vars, mcp_vars, bot_vars>>

PostReturns(tool_result) ==
    /\ pc = "execute_pending_post"
    /\ pc' = "idle"
    /\ ret' = ConfirmReturn(TRUE, <<"(check mark) ", Title(post_call.tool_name), " submitted.",
                                    NEWLINE, NEWLINE, json_dumps(tool_result)>>)
    /\ post_call' = NoCall
    /\ UNCHANGED <<user_state, tool_calls, tc_index, ai_request, ai_calls,
                   gateway_calls, next_id, turns, confirms>>
    /\ UNCHANGED <<fn_vars, server_vars, mcp_vars, bot_vars>>

\* Mutant of PostRaises: the failed write is put back into the pending slot.
PostRaisesKeepsPending(e) ==
    /\ pc = "execute_pending_post"
    /\ pc' = "idle"
    /\ ret' = ConfirmReturn(TRUE, <<"(cross mark) Submission failed for ", post_call.tool_name,
                                    ":", NEWLINE, e>>)
    /\ user_state' = Put(Put(user_state, STORED_PAYLOAD_KEY, post_call.params),
                         STORED_TOOL_NAME_KEY, post_call.tool_name)
    /\ post_call' = NoCall
    /\ UNCHANGED <<tool_calls, tc_index, ai_request, ai_calls,
                   gateway_calls, next_id, turns, confirms>>
    /\ UNCHANGED <<fn_vars, server_vars, mcp_vars, bot_vars>>

PostRaises(e) ==
    /\ pc = "execute_pending_post"
    /\ pc' = "idle"
    /\ ret' = ConfirmReturn(TRUE, <<"(cross mark) Submission failed for ", post_call.tool_name,
                                    ":", NEWLINE, e>>)
    /\ post_call' = NoCall
    /\ UNCHANGED <<user_state, tool_calls, tc_index, ai_request, ai_calls,
                   gateway_calls, next_id, turns, confirms>>
    /\ UNCHANGED <<fn_vars, server_vars, mcp_vars, bot_vars>>

(***************************************************************************)
(* The next-state relation.                                                *)
(***************************************************************************)
Next ==
    \/ \E text \in UserTexts : Handle(text)
    \/ AiReturnsNothing
    \/ \E content \in FinalContents : AiReturnsFinal(content)
    \/ \E n \in 1..(MaxToolCalls - ToolCallsIssued) :
         \E calls \in ToolCallLists(next_id, n) : AiReturnsToolCalls(calls)
    \/ \E result \in ToolResults : ToolReturns(result)
    \/ \E e \in Exceptions : ToolRaises(e)
    \/ ConfirmPost
    \/ \E tool_result \in ToolResults : PostReturns(tool_result)
    \/ \E e \in Exceptions : PostRaises(e)

Spec == Init /\ [][Next]_vars

(***************************************************************************)
(* ChatService.handle on its own: no confirm, and every kind of arguments  *)
(* string the provider may put in a tool call, the absent one ("")         *)
(* included.                                                               *)
(***************************************************************************)
ProviderArguments == {JRegionArgs, JInvalid, "", JList}
ProviderContents == {None, <<"Here are three dealers in Mumbai.">>}

ToolCallListsOver(first_id, n, raws) ==
    { [i \in 1..n |-> ToolCall(first_id + i - 1, c[i][1], c[i][2])] :
        c \in [1..n -> ToolNames \X raws] }

ProviderAnswers ==
    \/ AiReturnsNothing
    \/ \E content \in ProviderContents : AiReturnsFinal(content)
    \/ \E n \in 1..(MaxToolCalls - ToolCallsIssued) :
         \E calls \in ToolCallListsOver(next_id, n, ProviderArguments) :
            AiReturnsToolCalls(calls)

GatewayAnswers ==
    \/ \E result \in ToolResults : ToolReturns(result)
    \/ \E e \in Exceptions : ToolRaises(e)

HandleNext ==
    \/ \E text \in UserTexts : Handle(text)
    \/ ProviderAnswers
    \/ GatewayAnswers

HandleSpec == Init /\ [][HandleNext]_vars

\* The provider call runs in a worker thread and always comes back (it
\* returns None on any exception); a gateway call returns or raises.
FairHandleSpec ==
    /\ HandleSpec
    /\ WF_vars(ProviderAnswers)
    /\ WF_vars(GatewayAnswers)

(***************************************************************************)
(* Staging and confirming: turns whose final answer may carry a marker     *)
(* block of each kind of payload, and confirms in between; no tool calls.  *)
(***************************************************************************)
StagingDocuments == {JDvr, JSales, JHintTvr, JHintOther, JEmptyObject, JList, JInvalid}
StagingContents ==
    { <<"Here are three dealers in Mumbai.">> }
    \cup { <<"Reply Y to submit.", OPEN_MARKER, doc, CLOSE_MARKER>> : doc \in StagingDocuments }

StagingNext ==
    \/ \E text \in UserTexts : Handle(text)
    \/ AiReturnsNothing
    \/ \E content \in StagingContents : AiReturnsFinal(content)
    \/ ConfirmPost
    \/ \E tool_result \in ToolResults : PostReturns(tool_result)
    \/ \E e \in Exceptions : PostRaises(e)

StagingSpec == Init /\ [][StagingNext]_vars

(***************************************************************************)
(* The entry points a user message comes in by: the Socket.IO events       *)
(* send_message and confirm_post (flask_socket_server.py), and the         *)
(* Telegram reply wrapper handle_post_execution_reply (post_handler.py).   *)
(* One session, one event at a time.                                       *)
(***************************************************************************)
MessageTexts == { <<"Y">>, <<SPACE, "y", NEWLINE>>, <<"N">>, <<"list all dealers in Mumbai">>,
                  <<SPACE>> }
ReplyContents ==
    { <<"Here are three dealers in Mumbai.">>,
      <<"Reply Y to submit or N to cancel.", NEWLINE, OPEN_MARKER, NEWLINE, JDvr, NEWLINE, CLOSE_MARKER>>,
      <<"Reply Y to submit.", OPEN_MARKER, JEmptyObject, CLOSE_MARKER>>,
      <<"Here is the order.", OPEN_MARKER, JList, CLOSE_MARKER>> }

\* emit("error", {"message": "empty text"}); the wrapper's `return False`.
EmptyTextError ==
    [op |-> "on_send_message", text |-> <<"empty text">>, flag |-> FALSE, raised |-> FALSE,
     core_text |-> <<>>]
ReplyNotHandled ==
    [op |-> "handle_post_execution_reply", text |-> <<>>, flag |-> FALSE, raised |-> FALSE,
     core_text |-> <<>>]

on_send_message(text) ==
    IF Strip(text) = <<>>
    THEN /\ pc = "idle"
         /\ turns < MaxTurns
         /\ turns' = turns + 1
         /\ ret' = EmptyTextError
         /\ UNCHANGED <<user_state, pc, tool_calls, tc_index, post_call, ai_request,
                        ai_calls, gateway_calls, next_id, confirms>>
         /\ UNCHANGED <<fn_vars, server_vars, mcp_vars, bot_vars>>
    ELSE Handle(Strip(text))

on_confirm_post == ConfirmPost

handle_post_execution_reply(text) ==
    IF Upper(Strip(text)) # <<"Y">>
       \/ ~Has(user_state, STORED_PAYLOAD_KEY)
       \/ DOMAIN user_state[STORED_PAYLOAD_KEY] = {}
    THEN /\ pc = "idle"
         /\ confirms < MaxConfirms
         /\ confirms' = confirms + 1
         /\ ret' = ReplyNotHandled
         /\ UNCHANGED <<user_state, pc, tool_calls, tc_index, post_call, ai_request,
                        ai_calls, gateway_calls, next_id, turns>>
         /\ UNCHANGED <<fn_vars, server_vars, mcp_vars, bot_vars>>
    ELSE ConfirmPost

MessageNext ==
    \/ \E text \in MessageTexts : on_send_message(text)
    \/ on_confirm_post
    \/ \E text \in MessageTexts : handle_post_execution_reply(text)
    \/ AiReturnsNothing
    \/ \E content \in ReplyContents : AiReturnsFinal(content)
    \/ \E tool_result \in ToolResults : PostReturns(tool_result)
    \/ \E e \in Exceptions : PostRaises(e)

MessageSpec == Init /\ [][MessageNext]_vars

(***************************************************************************)
(* The argument scrub on its own: every mapping of at most MaxArgs keys,   *)
(* scrubbed by the loop of chat_service.py or by that of telegram_bot.py,  *)
(* and the result scrubbed once more.                                      *)
(***************************************************************************)
ArgumentKeys == CLEAN \cup {"userId", "region"}
ArgumentValues == {"5", "0", "null"}
ArgumentMappings ==
    UNION { [D -> ArgumentValues] :
              D \in {S \in SUBSET ArgumentKeys : Cardinality(S) <= MaxArgs} }

ScrubBy(adapter, args) ==
    IF adapter = "telegram_bot" THEN cleaned_args(args) ELSE Sanitize(args)

SanitizeInit ==
    /\ user_state = NewSession(<<>>)
    /\ Quiescent
    /\ NoServer
    /\ NoGateway
    /\ NoBot
    /\ fn_args \in [args : ArgumentMappings, adapter : {"chat_service", "telegram_bot"}]
    /\ fn_result = <<>>

SanitizeCall ==
    /\ fn_result = <<>>
    /\ fn_result' = <<ScrubBy(fn_args.adapter, fn_args.args)>>
    /\ UNCHANGED fn_args
    /\ UNCHANGED <<session_vars, server_vars, mcp_vars, bot_vars>>

SanitizeAgain ==
    /\ Len(fn_result) = 1
    /\ fn_result' = Append(fn_result, ScrubBy(fn_args.adapter, fn_result[1]))
    /\ UNCHANGED fn_args
    /\ UNCHANGED <<session_vars, server_vars, mcp_vars, bot_vars>>

SanitizeNext == SanitizeCall \/ SanitizeAgain

SanitizeSpec == SanitizeInit /\ [][SanitizeNext]_vars

(***************************************************************************)
(* The extractor on its own: check_and_store_post_request_core called on   *)
(* every text of at most MaxTextLen tokens, on a session with nothing      *)
(* staged and on one with a write staged.                                  *)
(***************************************************************************)
TextTokens == {OPEN_MARKER, CLOSE_MARKER, NEWLINE, Padding, "Reply Y to submit.",
               JDvr, JList, JInvalid, JMax, JHuge}
Texts == UNION { [1..n -> TextTokens] : n \in 0..MaxTextLen }
StagedSession ==
    Put(Put(NewSession(<<>>), STORED_PAYLOAD_KEY, json_loads_doc(JSales).val),
        STORED_TOOL_NAME_KEY, "post_sales_order")
PriorStates == {NewSession(<<>>), StagedSession}

ExtractInit ==
    /\ user_state \in PriorStates
    /\ Quiescent
    /\ NoServer
    /\ NoGateway
    /\ NoBot
    /\ \E final_answer \in Texts :
         fn_args = [final_answer |-> final_answer, user_state |-> user_state]
    /\ fn_result = <<>>

ExtractCall ==
    /\ fn_result = <<>>
    /\ LET r == check_and_store_post_request_core(fn_args.final_answer, user_state)
       IN  /\ user_state' = r.user_state
           /\ fn_result' = <<[is_confirmation_request |-> r.is_confirmation_request,
                               display_text |-> r.display_text,
                               tool_name |-> r.tool_name,
                               payload |-> r.payload]>>
    /\ UNCHANGED fn_args
    /\ UNCHANGED <<pc, tool_calls, tc_index, post_call, ai_request, ai_calls,
                   gateway_calls, next_id, turns, confirms, ret>>
    /\ UNCHANGED <<server_vars, mcp_vars, bot_vars>>

ExtractNext == ExtractCall

ExtractSpec == ExtractInit /\ [][ExtractNext]_vars

(***************************************************************************)
(* The extractor on final answers holding up to MaxBlocks marker blocks,   *)
(* each with a document of its own, with text before, between and after.   *)
(***************************************************************************)
BlockDocuments == {JDvr, JSales, JList, JInvalid}
Separators == {<<>>, <<NEWLINE>>, <<"Reply Y to submit.">>}
MarkerBlock(doc) == <<OPEN_MARKER, doc, CLOSE_MARKER>>
RECURSIVE TextsOfBlocks(_)
TextsOfBlocks(n) ==
    IF n = 0 THEN Separators
    ELSE {s \o MarkerBlock(doc) \o rest :
            s \in Separators, doc \in BlockDocuments, rest \in TextsOfBlocks(n - 1)}
BlockTexts == UNION {TextsOfBlocks(n) : n \in 1..MaxBlocks}

BlocksInit ==
    /\ user_state \in PriorStates
    /\ Quiescent
    /\ NoServer
    /\ NoGateway
    /\ NoBot
    /\ \E final_answer \in BlockTexts :
         fn_args = [final_answer |-> final_answer, user_state |-> user_state]
    /\ fn_result = <<>>

BlocksSpec == BlocksInit /\ [][ExtractNext]_vars

(***************************************************************************)
(* _pick_tool_name on its own: every payload over the hint field and the   *)
(* six signature fields.                                                   *)
(***************************************************************************)
SignatureFields == {"siteNameConcernedPerson", "clientsRemarks", "dealerTotalPotential",
                    "todayCollectionRupees", "orderTotal", "estimatedDelivery"}
HintValues == {"\"post_tvr_report\"", "\"post_dvr_report\"", "\"post_sales_order\"",
               "\"get_dealers_list\"", "\"POST_TVR_REPORT\"", "5", "null"}
Payloads ==
    UNION { {[k \in D |-> "1"]} : D \in SUBSET SignatureFields }
    \cup UNION { {[k \in D \cup {"__tool"} |-> IF k = "__tool" THEN h ELSE "1"] : h \in HintValues} :
                   D \in SUBSET SignatureFields }

ClassifyInit ==
    /\ user_state = NewSession(<<>>)
    /\ Quiescent
    /\ NoServer
    /\ NoGateway
    /\ NoBot
    /\ fn_args \in Payloads
    /\ fn_result = <<>>

ClassifyCall ==
    /\ fn_result = <<>>
    /\ fn_result' = <<_pick_tool_name(fn_args)>>
    /\ UNCHANGED fn_args
    /\ UNCHANGED <<session_vars, server_vars, mcp_vars, bot_vars>>

ClassifyNext == ClassifyCall

ClassifySpec == ClassifyInit /\ [][ClassifyNext]_vars

(***************************************************************************)
(* The Socket.IO adapter (flask_socket_server.py).                         *)
(*                                                                         *)
(* Every send_message / confirm_post event starts a background task        *)
(* (_work); _run_async_in_thread runs the coroutine of the task in an OS   *)
(* thread of its own with an event loop of its own.  Nothing orders the    *)
(* tasks of one sid: the steps of all tasks interleave.  A task holds a    *)
(* reference to the dict it obtained from CLIENT_STATES; dicts live in     *)
(* heap and are named by their position.  A coroutine is split at its      *)
(* awaits and, because the threads share the dict, between the two pops    *)
(* of execute_pending_post_core and between the two stores of              *)
(* check_and_store_post_request_core.                                      *)
(***************************************************************************)
Sids == 1..MaxSessions
ServerTexts == {<<SPACE, "list all dealers in Mumbai">>}
ServerTools == <<"get_dealers_list", "post_sales_order">>
ServerContents ==
    { <<"Here are three dealers in Mumbai.">>,
      <<"Reply Y to submit.", OPEN_MARKER, JDvr, CLOSE_MARKER>> }
ServerArguments == {JRegionArgs, JList}

NoTask ==
    [sid |-> 0, op |-> "", text |-> <<>>, pc |-> "", state |-> 0,
     tool_calls |-> <<>>, tc_index |-> 0, ai_calls |-> 0,
     pending_payload |-> NoneDict, pending_tool_name |-> NoneStr,
     staging |-> NoCall, ret |-> NoReturn]

\* The task a handler passes to socketio.start_background_task.
NewTask(sid, op, text) == [NoTask EXCEPT !.sid = sid, !.op = op, !.text = text, !.pc = "_work"]

TaskIds == DOMAIN tasks
Running(t) == tasks[t].pc \notin {"_work", "done", "rejected"}
Finished(t) == tasks[t].pc \in {"done", "rejected"}

Started(op) == Cardinality({t \in TaskIds : tasks[t].op = op})
Unfinished == Cardinality({t \in TaskIds : ~Finished(t)})

ServerInit ==
    /\ user_state = NewSession(<<>>)
    /\ Quiescent
    /\ fn_args = <<>>
    /\ fn_result = <<>>
    /\ CLIENT_STATES = <<>>
    /\ heap = <<>>
    /\ TOOLS_CACHE = ServerTools
    /\ tasks = <<>>
    /\ clients = [sid \in Sids |-> "new"]
    /\ NoGateway
    /\ NoBot

ServerUnchanged == UNCHANGED <<session_vars, fn_vars, mcp_vars, bot_vars, TOOLS_CACHE>>

\* Mutant of on_connect: every client is given the dict of the first one.
on_connectSharedDict(sid) ==
    /\ clients[sid] = "new"
    /\ \A other \in Sids : other < sid => clients[other] # "new"
    /\ clients' = [clients EXCEPT ![sid] = "connected"]
    /\ IF heap = <<>>
       THEN /\ heap' = Append(heap, NewSession(TOOLS_CACHE))
            /\ CLIENT_STATES' = (sid :> Len(heap) + 1) @@ CLIENT_STATES
       ELSE /\ heap' = heap
            /\ CLIENT_STATES' = (sid :> 1) @@ CLIENT_STATES
    /\ UNCHANGED tasks
    /\ ServerUnchanged

\* Sids are opaque: they are handed out in increasing order.
on_connect(sid) ==
    /\ clients[sid] = "new"
    /\ \A other \in Sids : other < sid => clients[other] # "new"
    /\ clients' = [clients EXCEPT ![sid] = "connected"]
    /\ heap' = Append(heap, NewSession(TOOLS_CACHE))
    /\ CLIENT_STATES' = (sid :> Len(heap) + 1) @@ CLIENT_STATES
    /\ UNCHANGED tasks
    /\ ServerUnchanged

\* CLIENT_STATES.pop(request.sid, None)
on_disconnect(sid) ==
    /\ clients[sid] = "connected"
    /\ clients' = [clients EXCEPT ![sid] = "disconnected"]
    /\ CLIENT_STATES' = [s \in DOMAIN CLIENT_STATES \ {sid} |-> CLIENT_STATES[s]]
    /\ UNCHANGED <<heap, tasks>>
    /\ ServerUnchanged

\* The send_message handler: a blank text is answered with an error, any
\* other text starts a background task.
SendMessageEvent(sid, text) ==
    /\ clients[sid] = "connected"
    /\ Len(tasks) < MaxEvents
    /\ Unfinished < MaxWorkers
    /\ Started("handle") < MaxTurns
    /\ tasks' = Append(tasks,
         IF Strip(text) = <<>>
         THEN [NoTask EXCEPT !.sid = sid, !.op = "handle", !.text = text,
                             !.pc = "rejected", !.ret = EmptyTextError]
         ELSE NewTask(sid, "handle", Strip(text)))
    /\ UNCHANGED <<CLIENT_STATES, heap, clients>>
    /\ ServerUnchanged

\* Mutant of ConfirmPostEvent: a confirm is started only when no task of
\* the sid is unfinished.
ConfirmPostEventSerialized(sid) ==
    /\ clients[sid] = "connected"
    /\ Len(tasks) < MaxEvents
    /\ Unfinished < MaxWorkers
    /\ Started("confirm_post") < MaxConfirms
    /\ \A t \in TaskIds : tasks[t].sid = sid => Finished(t)
    /\ tasks' = Append(tasks, NewTask(sid, "confirm_post", <<>>))
    /\ UNCHANGED <<CLIENT_STATES, heap, clients>>
    /\ ServerUnchanged

\* The confirm_post handler.
ConfirmPostEvent(sid) ==
    /\ clients[sid] = "connected"
    /\ Len(tasks) < MaxEvents
    /\ Unfinished < MaxWorkers
    /\ Started("confirm_post") < MaxConfirms
    /\ tasks' = Append(tasks, NewTask(sid, "confirm_post", <<>>))
    /\ UNCHANGED <<CLIENT_STATES, heap, clients>>
    /\ ServerUnchanged

\* CLIENT_STATES.setdefault(sid, {...}): the reference the task works on,
\* and the heap and CLIENT_STATES after the call.
SetDefault(sid) ==
    IF sid \in DOMAIN CLIENT_STATES
    THEN [ref |-> CLIENT_STATES[sid], heap |-> heap, states |-> CLIENT_STATES]
    ELSE [ref |-> Len(heap) + 1, heap |-> Append(heap, NewSession(TOOLS_CACHE)),
          states |-> (sid :> Len(heap) + 1) @@ CLIENT_STATES]

AppendTo(h, ref, m) ==
    [h EXCEPT ![ref] = Put(h[ref], "messages", AppendMessage(h[ref]["messages"], m))]

\* _work of on_send_message up to the first await of handle.
TaskHandle(t) ==
    /\ tasks[t].pc = "_work"
    /\ tasks[t].op = "handle"
    /\ LET d == SetDefault(tasks[t].sid)
       IN  /\ CLIENT_STATES' = d.states
           /\ heap' = AppendTo(d.heap, d.ref, UserMessage(tasks[t].text))
           /\ tasks' = [tasks EXCEPT ![t].state = d.ref, ![t].pc = "get_ai_completion",
                                     ![t].ai_calls = 1]
    /\ UNCHANGED clients
    /\ ServerUnchanged

TaskAiReturnsNothing(t) ==
    /\ tasks[t].pc = "get_ai_completion"
    /\ tasks' = [tasks EXCEPT ![t].pc = "done",
                   ![t].ret = HandleReturn(<<"Model returned nothing. Try again.">>, FALSE)]
    /\ UNCHANGED <<CLIENT_STATES, heap, clients>>
    /\ ServerUnchanged

\* The final answer: appended, then the extractor up to and including
\* `user_state[STORED_PAYLOAD_KEY] = payload`.
TaskAiReturnsFinal(t, content) ==
    /\ tasks[t].pc = "get_ai_completion"
    /\ LET ref == tasks[t].state
           h == AppendTo(heap, ref, AssistantMessage(content, <<>>))
           final_text == IF content = None \/ content = <<>> THEN <<"...">> ELSE content
           r == check_and_store_post_request_core(final_text, h[ref])
       IN  IF r.is_confirmation_request
           THEN /\ heap' = [h EXCEPT ![ref] = Put(h[ref], STORED_PAYLOAD_KEY, r.payload)]
                /\ tasks' = [tasks EXCEPT ![t].pc = "store_tool_name",
                               ![t].staging = [tool_name |-> r.tool_name, params |-> r.payload],
                               ![t].ret = HandleReturn(r.display_text, TRUE)]
           ELSE /\ heap' = h
                /\ tasks' = [tasks EXCEPT ![t].pc = "done",
                               ![t].ret = HandleReturn(r.display_text, FALSE)]
    /\ UNCHANGED <<CLIENT_STATES, clients>>
    /\ ServerUnchanged

\* `user_state[STORED_TOOL_NAME_KEY] = tool_name`, then the return.
TaskStoreToolName(t) ==
    /\ tasks[t].pc = "store_tool_name"
    /\ LET ref == tasks[t].state
       IN  heap' = [heap EXCEPT ![ref] = Put(heap[ref], STORED_TOOL_NAME_KEY, tasks[t].staging.tool_name)]
    /\ tasks' = [tasks EXCEPT ![t].pc = "done"]
    /\ UNCHANGED <<CLIENT_STATES, clients>>
    /\ ServerUnchanged

\* The tasks whose provider has asked for tool calls.
ToolRounds == Cardinality({u \in TaskIds : tasks[u].tool_calls # <<>>})

\* The record of task t when call k of its round begins: the gateway call
\* is in flight, or the arguments are not a dict and handle raises (the
\* except of _work reports a server error).
TaskBeginToolCall(task, calls, k) ==
    IF LoadArguments(CallAt(calls, k).function.arguments).kind = "other"
    THEN [task EXCEPT !.pc = "done", !.tool_calls = calls, !.tc_index = k,
                      !.ret = HandleRaise("AttributeError")]
    ELSE [task EXCEPT !.pc = "mcp_call_tool", !.tool_calls = calls, !.tc_index = k]

TaskAiReturnsToolCalls(t, calls) ==
    /\ tasks[t].pc = "get_ai_completion"
    /\ TOOLS_CACHE # <<>>
    /\ tasks[t].ai_calls < MaxAiCalls
    /\ tasks[t].tool_calls # <<>> \/ ToolRounds < MaxRounds
    /\ heap' = AppendTo(heap, tasks[t].state, AssistantMessage(None, calls))
    /\ tasks' = [tasks EXCEPT ![t] = TaskBeginToolCall(tasks[t], calls, 1)]
    /\ UNCHANGED <<CLIENT_STATES, clients>>
    /\ ServerUnchanged

TaskEndToolCall(t, content) ==
    /\ tasks[t].pc = "mcp_call_tool"
    /\ heap' = AppendTo(heap, tasks[t].state,
                        ToolMessage(CallAt(tasks[t].tool_calls, tasks[t].tc_index), content))
    /\ tasks' = [tasks EXCEPT ![t] =
         IF tasks[t].tc_index < Len(tasks[t].tool_calls)
         THEN TaskBeginToolCall(tasks[t], tasks[t].tool_calls, tasks[t].tc_index + 1)
         ELSE [tasks[t] EXCEPT !.pc = "get_ai_completion", !.ai_calls = @ + 1]]
    /\ UNCHANGED <<CLIENT_STATES, clients>>
    /\ ServerUnchanged

TaskToolReturns(t, result) == TaskEndToolCall(t, <<json_dumps(result)>>)

TaskToolRaises(t, e) ==
    /\ tasks[t].pc = "mcp_call_tool"
    /\ TaskEndToolCall(t, <<"Error executing tool ",
           CallAt(tasks[t].tool_calls, tasks[t].tc_index).function.name, ": ", e>>)

\* What execute_pending_post_core does once both pops are made.
AfterPops(task, pending_payload, pending_tool_name) ==
    IF Truthy(pending_payload, pending_tool_name)
    THEN [task EXCEPT !.pc = "execute_pending_post",
                      !.pending_payload = pending_payload,
                      !.pending_tool_name = pending_tool_name,
                      !.staging = [tool_name |-> pending_tool_name, params |-> pending_payload]]
    ELSE [task EXCEPT !.pc = "done",
                      !.pending_payload = pending_payload,
                      !.pending_tool_name = pending_tool_name,
                      !.ret = ConfirmReturn(FALSE, <<>>)]

\* Mutant of TaskConfirmPost: both pops are made in one step.
TaskConfirmPostBothPops(t) ==
    /\ tasks[t].pc = "_work"
    /\ tasks[t].op = "confirm_post"
    /\ LET d == SetDefault(tasks[t].sid)
       IN  /\ CLIENT_STATES' = d.states
           /\ heap' = [d.heap EXCEPT ![d.ref] = PopPending(d.heap[d.ref])]
           /\ tasks' = [tasks EXCEPT ![t] =
                AfterPops([tasks[t] EXCEPT !.state = d.ref],
                          PoppedPayload(d.heap[d.ref]), PoppedToolName(d.heap[d.ref]))]
    /\ UNCHANGED clients
    /\ ServerUnchanged

\* _work of on_confirm_post up to and including
\* `pending_payload = user_state.pop(STORED_PAYLOAD_KEY, None)`.
TaskConfirmPost(t) ==
    /\ tasks[t].pc = "_work"
    /\ tasks[t].op = "confirm_post"
    /\ LET d == SetDefault(tasks[t].sid)
       IN  /\ CLIENT_STATES' = d.states
           /\ heap' = [d.heap EXCEPT ![d.ref] = Pop(d.heap[d.ref], STORED_PAYLOAD_KEY)]
           /\ tasks' = [tasks EXCEPT ![t].state = d.ref, ![t].pc = "pop_tool_name",
                          ![t].pending_payload = PoppedPayload(d.heap[d.ref])]
    /\ UNCHANGED clients
    /\ ServerUnchanged

\* `pending_tool_name = user_state.pop(STORED_TOOL_NAME_KEY, None)`, the
\* test of both values and, if it passes, the gateway call.
TaskPopToolName(t) ==
    /\ tasks[t].pc = "pop_tool_name"
    /\ LET ref == tasks[t].state
       IN  /\ heap' = [heap EXCEPT ![ref] = Pop(heap[ref], STORED_TOOL_NAME_KEY)]
           /\ tasks' = [tasks EXCEPT ![t] =
                AfterPops(tasks[t], tasks[t].pending_payload, PoppedToolName(heap[ref]))]
    /\ UNCHANGED <<CLIENT_STATES, clients>>
    /\ ServerUnchanged

TaskPostReturns(t, tool_result) ==
    /\ tasks[t].pc = "execute_pending_post"
    /\ tasks' = [tasks EXCEPT ![t].pc = "done",
         ![t].ret = ConfirmReturn(TRUE, <<"(check mark) ", Title(tasks[t].staging.tool_name),
                                          " submitted.", NEWLINE, NEWLINE, json_dumps(tool_result)>>)]
    /\ UNCHANGED <<CLIENT_STATES, heap, clients>>
    /\ ServerUnchanged

TaskPostRaises(t, e) ==
    /\ tasks[t].pc = "execute_pending_post"
    /\ tasks' = [tasks EXCEPT ![t].pc = "done",
         ![t].ret = ConfirmReturn(TRUE, <<"(cross mark) Submission failed for ",
                                          tasks[t].staging.tool_name, ":", NEWLINE, e>>)]
    /\ UNCHANGED <<CLIENT_STATES, heap, clients>>
    /\ ServerUnchanged

\* A step of ChatService.handle / ChatService.confirm_post in task t.
TaskStep(t) ==
    \/ TaskHandle(t)
    \/ TaskAiReturnsNothing(t)
    \/ \E content \in ServerContents : TaskAiReturnsFinal(t, content)
    \/ TaskStoreToolName(t)
    \/ \E raw \in ServerArguments :
         TaskAiReturnsToolCalls(t, <<ToolCall(t, "get_dealers_list", raw)>>)
    \/ \E result \in ToolResults : TaskToolReturns(t, result)
    \/ \E e \in Exceptions : TaskToolRaises(t, e)
    \/ TaskConfirmPost(t)
    \/ TaskPopToolName(t)
    \/ \E tool_result \in ToolResults : TaskPostReturns(t, tool_result)
    \/ \E e \in Exceptions : TaskPostRaises(t, e)

ServerNext ==
    \/ \E sid \in Sids : on_connect(sid)
    \/ \E sid \in Sids : on_disconnect(sid)
    \/ \E sid \in Sids : \E text \in ServerTexts : SendMessageEvent(sid, text)
    \/ \E sid \in Sids : ConfirmPostEvent(sid)
    \/ \E t \in TaskIds : TaskStep(t)

ServerSpec == ServerInit /\ [][ServerNext]_vars

(***************************************************************************)
(* The shared gateway client (ai_services.py).                             *)
(*                                                                         *)
(* Coroutines of one event loop call setup_mcp_client, close_mcp_client    *)
(* and mcp_call_tool; they interleave at their awaits: the acquisition of  *)
(* _mcp_lock, client.__aenter__(), client.__aexit__() and call_tool.  A    *)
(* client is named by its position in connections, which holds what became *)
(* of its connection.                                                      *)
(***************************************************************************)
NoCaller ==
    [op |-> "", pc |-> "", client |-> NoClient, ret |-> NoClient, raised |-> ""]
NewCaller(op) == [NoCaller EXCEPT !.op = op, !.pc = "acquire"]
CallerIds == DOMAIN callers

\* Connections being opened or open.
OpenConnections == {k \in DOMAIN connections : connections[k] \in {"connecting", "open"}}

GatewayInit ==
    /\ user_state = NewSession(<<>>)
    /\ Quiescent
    /\ NoServer
    /\ NoGateway
    /\ NoBot
    /\ fn_args = <<>>
    /\ fn_result = <<>>

GatewayUnchanged == UNCHANGED <<session_vars, fn_vars, server_vars, bot_vars>>

\* A coroutine calls setup_mcp_client or close_mcp_client: it runs up to
\* `async with _mcp_lock`.
CallSetupOrClose(op) ==
    /\ Len(callers) < MaxCallers
    /\ callers' = Append(callers, NewCaller(op))
    /\ UNCHANGED <<_mcp_client, _mcp_lock, connections>>
    /\ GatewayUnchanged

\* Mutant of SetupAcquire: the test and the connect are made without the
\* lock.
SetupAcquireUnlocked(c) ==
    /\ callers[c].op = "setup_mcp_client"
    /\ callers[c].pc = "acquire"
    /\ IF _mcp_client # NoClient
       THEN /\ callers' = [callers EXCEPT ![c].pc = "done", ![c].ret = _mcp_client]
            /\ UNCHANGED connections
       ELSE /\ connections' = Append(connections, "connecting")
            /\ callers' = [callers EXCEPT ![c].pc = "__aenter__", ![c].client = Len(connections) + 1]
    /\ UNCHANGED <<_mcp_client, _mcp_lock>>
    /\ GatewayUnchanged

\* setup_mcp_client with the lock acquired: the client there is returned,
\* or a new one is created and its __aenter__ awaited under the lock.
SetupAcquire(c) ==
    /\ callers[c].op = "setup_mcp_client"
    /\ callers[c].pc = "acquire"
    /\ _mcp_lock = 0
    /\ IF _mcp_client # NoClient
       THEN /\ callers' = [callers EXCEPT ![c].pc = "done", ![c].ret = _mcp_client]
            /\ UNCHANGED <<_mcp_lock, connections>>
       ELSE /\ connections' = Append(connections, "connecting")
            /\ callers' = [callers EXCEPT ![c].pc = "__aenter__", ![c].client = Len(connections) + 1]
            /\ _mcp_lock' = c
    /\ UNCHANGED _mcp_client
    /\ GatewayUnchanged

\* __aenter__ returned: the client is published and returned.
SetupConnects(c) ==
    /\ callers[c].pc = "__aenter__"
    /\ connections' = [connections EXCEPT ![callers[c].client] = "open"]
    /\ _mcp_client' = callers[c].client
    /\ callers' = [callers EXCEPT ![c].pc = "done", ![c].ret = callers[c].client]
    /\ _mcp_lock' = 0
    /\ GatewayUnchanged

\* __aenter__ raised: the lock is released, nothing is published.
SetupRaises(c, e) ==
    /\ callers[c].pc = "__aenter__"
    /\ connections' = [connections EXCEPT ![callers[c].client] = "failed"]
    /\ callers' = [callers EXCEPT ![c].pc = "done", ![c].raised = e]
    /\ _mcp_lock' = 0
    /\ UNCHANGED _mcp_client
    /\ GatewayUnchanged

\* close_mcp_client with the lock acquired.
CloseAcquire(c) ==
    /\ callers[c].op = "close_mcp_client"
    /\ callers[c].pc = "acquire"
    /\ _mcp_lock = 0
    /\ IF _mcp_client = NoClient
       THEN /\ callers' = [callers EXCEPT ![c].pc = "done"]
            /\ UNCHANGED _mcp_lock
       ELSE /\ callers' = [callers EXCEPT ![c].pc = "__aexit__", ![c].client = _mcp_client]
            /\ _mcp_lock' = c
    /\ UNCHANGED <<_mcp_client, connections>>
    /\ GatewayUnchanged

\* __aexit__ returned, then the finally.
CloseReturns(c) ==
    /\ callers[c].pc = "__aexit__"
    /\ connections' = [connections EXCEPT ![callers[c].client] = "closed"]
    /\ _mcp_client' = NoClient
    /\ callers' = [callers EXCEPT ![c].pc = "done"]
    /\ _mcp_lock' = 0
    /\ GatewayUnchanged

\* __aexit__ raised: the finally still clears the client.
CloseRaises(c, e) ==
    /\ callers[c].pc = "__aexit__"
    /\ connections' = [connections EXCEPT ![callers[c].client] = "aborted"]
    /\ _mcp_client' = NoClient
    /\ callers' = [callers EXCEPT ![c].pc = "done", ![c].raised = e]
    /\ _mcp_lock' = 0
    /\ GatewayUnchanged

\* _ensure_mcp(): the published client, or RuntimeError.
_ensure_mcp ==
    IF _mcp_client = NoClient
    THEN [client |-> NoClient, raised |-> "RuntimeError"]
    ELSE [client |-> _mcp_client, raised |-> ""]

\* mcp_call_tool up to the await of call_tool on the client.
McpCallTool ==
    /\ Len(callers) < MaxCallers
    /\ LET got == _ensure_mcp
       IN  callers' = Append(callers,
             IF got.raised # ""
             THEN [NoCaller EXCEPT !.op = "mcp_call_tool", !.pc = "done", !.raised = got.raised]
             ELSE [NoCaller EXCEPT !.op = "mcp_call_tool", !.pc = "call_tool", !.client = got.client])
    /\ UNCHANGED <<_mcp_client, _mcp_lock, connections>>
    /\ GatewayUnchanged

CallToolReturns(c) ==
    /\ callers[c].pc = "call_tool"
    /\ callers' = [callers EXCEPT ![c].pc = "done", ![c].ret = callers[c].client]
    /\ UNCHANGED <<_mcp_client, _mcp_lock, connections>>
    /\ GatewayUnchanged

CallToolRaises(c, e) ==
    /\ callers[c].pc = "call_tool"
    /\ callers' = [callers EXCEPT ![c].pc = "done", ![c].raised = e]
    /\ UNCHANGED <<_mcp_client, _mcp_lock, connections>>
    /\ GatewayUnchanged

GatewayNext ==
    \/ \E op \in {"setup_mcp_client", "close_mcp_client"} : CallSetupOrClose(op)
    \/ \E c \in CallerIds : SetupAcquire(c)
    \/ \E c \in CallerIds : SetupConnects(c)
    \/ \E c \in CallerIds : \E e \in Exceptions : SetupRaises(c, e)
    \/ \E c \in CallerIds : CloseAcquire(c)
    \/ \E c \in CallerIds : CloseReturns(c)
    \/ \E c \in CallerIds : \E e \in Exceptions : CloseRaises(c, e)
    \/ McpCallTool
    \/ \E c \in CallerIds : CallToolReturns(c)
    \/ \E c \in CallerIds : \E e \in Exceptions : CallToolRaises(c, e)

GatewaySpec == GatewayInit /\ [][GatewayNext]_vars

(***************************************************************************)
(* telegram_bot.py: message_handler. A handler invocation keeps its own    *)
(* message list; user_state stands for context.bot_data, which holds the   *)
(* tool schemas under 'mcp_tools'.                                         *)
(***************************************************************************)
BY_ID_TOOLS == {"get_user_by_id", "get_dealer_by_id", "get_dvr_report_by_id",
                "get_tvr_report_by_id", "get_sales_order_by_id"}

\* The if/elif chain of substring tests on the function name.
rescue_key(function_name) ==
    CASE function_name = "get_user_by_id" -> "user_id"
      [] function_name = "get_dealer_by_id" -> "dealer_id"
      [] function_name = "get_dvr_report_by_id" -> "reportId"
      [] function_name = "get_tvr_report_by_id" -> "reportId"
      [] function_name = "get_sales_order_by_id" -> "orderId"
      [] OTHER -> NoneStr

\* isinstance(v, int) on a decoded JSON value: integers, and the booleans
\* (bool is a subclass of int).
IntLiterals == {"0", "3", "5", "7", "9", "42"}
IsInstanceInt(v) == v \in IntLiterals \cup {"true", "false"}
\* bool(v) of such a value.
IsTruthy(v) == v \notin {"0", "false", NoneStr}

\* function_args.values(): the values in the order of the document's keys.
json_keys(doc) ==
    CASE doc = JNameId -> <<"name">>
      [] doc = JNameZero -> <<"name">>
      [] doc = JTwoIds -> <<"title", "name", "required">>
      [] doc = JRequiredTrue -> <<"required">>
      [] doc = JNullId -> <<"dealer_id">>
      [] doc = JDealerId -> <<"dealer_id">>
      [] doc = JRegionArgs -> <<"region">>
      [] OTHER -> <<>>

\* Rescue attempt 1: the first value of the raw arguments that is an int,
\* or None.
id_value_from_args(doc) ==
    LET function_args == json_loads_doc(doc).val
        keys == json_keys(doc)
        ints == {i \in 1..Len(keys) : IsInstanceInt(function_args[keys[i]])}
    IN  IF ints = {} THEN NoneStr
        ELSE function_args[keys[CHOOSE i \in ints : \A j \in ints : i <= j]]

\* `id_value_from_args or rescued_id_from_text`
final_id_value(doc, rescued) ==
    IF IsTruthy(id_value_from_args(doc)) THEN id_value_from_args(doc) ELSE rescued

\* The id regex on the user text, re.IGNORECASE: a keyword, then \s*#?\s*
\* and digits; or digits followed only by whitespace up to the end.
IdKeywords == {"user", "dealer", "report", "dvr", "tvr", "sales order", "sales", "order", "id"}
Lower(tok) == CASE tok = "Dealer" -> "dealer" [] OTHER -> tok
Digits == {"7", "0", "007", "42"}
\* int(id_str)
int(id_str) == CASE id_str = "007" -> "7" [] OTHER -> id_str
KeywordMatch(text, i) ==
    IF Lower(text[i]) \notin IdKeywords THEN 0
    ELSE LET ends == {j \in (i + 1)..Len(text) :
                        /\ text[j] \in Digits
                        /\ \A k \in (i + 1)..(j - 1) : text[k] \in Whitespace \cup {"#"}
                        /\ Cardinality({k \in (i + 1)..(j - 1) : text[k] = "#"}) <= 1}
         IN  IF ends = {} THEN 0 ELSE CHOOSE j \in ends : TRUE
TrailingMatch(text, i) ==
    IF text[i] \in Digits /\ \A k \in (i + 1)..Len(text) : text[k] \in Whitespace
    THEN i ELSE 0
\* re.search: the leftmost position where an alternative matches, the
\* keyword alternative first; the digits it captured, converted by int().
id_from_text(text) ==
    LET hits == {i \in 1..Len(text) : KeywordMatch(text, i) # 0 \/ TrailingMatch(text, i) # 0}
        i == CHOOSE a \in hits : \A b \in hits : a <= b
    IN  IF hits = {} THEN NoneStr
        ELSE IF KeywordMatch(text, i) # 0 THEN int(text[KeywordMatch(text, i)])
             ELSE int(text[TrailingMatch(text, i)])

\* The body of the try for one tool call, up to the await of mcp_call_tool:
\* the arguments given to the gateway, or the exception raised before it.
PrepareToolCall(tc, rescued) ==
    LET function_name == tc.function.name
        parsed == json_loads_doc(tc.function.arguments)
        cleaned == cleaned_args(parsed.val)
        final == final_id_value(tc.function.arguments, rescued)
        injected == IF final # NoneStr /\ rescue_key(function_name) # NoneStr
                    THEN (rescue_key(function_name) :> final) ELSE cleaned
    IN  IF parsed.kind = "error" THEN [raised |-> TRUE, e |-> "JSONDecodeError", args |-> <<>>]
        ELSE IF parsed.kind = "other"
        THEN [raised |-> TRUE, e |-> "AttributeError", args |-> <<>>]
        ELSE IF function_name \notin BY_ID_TOOLS \/ cleaned # <<>>
        THEN [raised |-> FALSE, e |-> "", args |-> cleaned]
        ELSE IF injected = <<>>
        THEN [raised |-> TRUE, e |-> "Required ID parameter missing.", args |-> <<>>]
        ELSE [raised |-> FALSE, e |-> "", args |-> injected]

BotTexts == { <<"show dealers">>,
              <<"show ", "Dealer", SPACE, "#", SPACE, "007">>,
              <<"order", "0">>,
              <<"42", " is my id">>,
              <<"what about ", "42", NEWLINE>> }
BotArguments == {JDealerId, JNameId, JNameZero, JTwoIds, JRequiredTrue, JNullId,
                 JEmptyObject, JList, JInvalid}
BotRequests == (BY_ID_TOOLS \X BotArguments) \cup ({"get_dealers_list"} \X {JEmptyObject, JRegionArgs})
BotToolCallLists(first_id, n) ==
    { [i \in 1..n |-> ToolCall(first_id + i - 1, c[i][1], c[i][2])] :
        c \in [1..n -> BotRequests] }
BotReply(text) ==
    [op |-> "message_handler", text |-> text, flag |-> FALSE, raised |-> FALSE,
     core_text |-> text]
ErrorContent(function_name, e) == <<"Error executing tool ", function_name, ": ", e>>

BotInit ==
    /\ user_state = ("mcp_tools" :> <<"get_dealer_by_id", "get_dealers_list">>)
    /\ Quiescent
    /\ NoServer
    /\ NoGateway
    /\ NoBot
    /\ fn_args = <<>>
    /\ fn_result = <<>>

BotUnchanged == UNCHANGED <<user_state, post_call, confirms, fn_vars, server_vars, mcp_vars>>

\* message_handler up to the first await of get_ai_completion.
message_handler(text) ==
    /\ pc = "idle"
    /\ turns < MaxTurns
    /\ ai_calls < MaxAiCalls
    /\ text # <<>>
    /\ turns' = turns + 1
    /\ rescued_id_from_text' = id_from_text(text)
    /\ bot_messages' = <<SystemMessage, UserMessage(text)>>
    /\ pc' = "get_ai_completion"
    /\ ai_request' = [messages |-> bot_messages', tools |-> user_state["mcp_tools"]]
    /\ ai_calls' = ai_calls + 1
    /\ ret' = NoReturn
    /\ UNCHANGED <<tool_calls, tc_index, gateway_calls, next_id>>
    /\ BotUnchanged

\* No response: ValueError, caught by the outer except.
BotAiReturnsNothing ==
    /\ pc = "get_ai_completion"
    /\ bot_messages # <<>>
    /\ pc' = "idle"
    /\ ret' = BotReply(<<"Sorry, I'm having trouble connecting to my brain right now. Please try again later.">>)
    /\ ai_request' = NoRequest
    /\ UNCHANGED <<bot_messages, rescued_id_from_text, tool_calls, tc_index, ai_calls,
                   gateway_calls, next_id, turns>>
    /\ BotUnchanged

\* A response without tool calls: the loop breaks and the answer is sent.
BotAiReturnsFinal(content) ==
    /\ pc = "get_ai_completion"
    /\ bot_messages # <<>>
    /\ bot_messages' = Append(bot_messages, AssistantMessage(content, <<>>))
    /\ pc' = "idle"
    /\ ret' = BotReply(IF content = None \/ content = <<>>
                       THEN <<"Sorry, I couldn't come up with a response.">> ELSE content)
    /\ ai_request' = NoRequest
    /\ UNCHANGED <<rescued_id_from_text, tool_calls, tc_index, ai_calls,
                   gateway_calls, next_id, turns>>
    /\ BotUnchanged

\* A response with tool calls: appended, and the for loop is entered.
BotAiReturnsToolCalls(calls) ==
    /\ pc = "get_ai_completion"
    /\ bot_messages # <<>>
    /\ ai_calls < MaxAiCalls
    /\ bot_messages' = Append(bot_messages, AssistantMessage(None, calls))
    /\ tool_calls' = calls
    /\ tc_index' = 1
    /\ pc' = "for tool_call"
    /\ next_id' = next_id + Len(calls)
    /\ ai_request' = NoRequest
    /\ UNCHANGED <<rescued_id_from_text, ai_calls, gateway_calls, turns, ret>>
    /\ BotUnchanged

\* The loop body raises before the gateway is called: the except appends a
\* tool message with the error and the loop goes on.
BotToolCallFails ==
    /\ pc = "for tool_call"
    /\ tc_index <= Len(tool_calls)
    /\ LET tc == tool_calls[tc_index]
           p == PrepareToolCall(tc, rescued_id_from_text)
       IN  /\ p.raised
           /\ bot_messages' = Append(bot_messages,
                                 ToolMessage(tc, ErrorContent(tc.function.name, p.e)))
    /\ tc_index' = tc_index + 1
    /\ UNCHANGED <<pc, rescued_id_from_text, tool_calls, ai_request, ai_calls,
                   gateway_calls, next_id, turns, ret>>
    /\ BotUnchanged

\* The loop body reaches `await mcp_call_tool(function_name, cleaned_args)`.
BotCallsGateway ==
    /\ pc = "for tool_call"
    /\ tc_index <= Len(tool_calls)
    /\ LET tc == tool_calls[tc_index]
           p == PrepareToolCall(tc, rescued_id_from_text)
       IN  /\ ~p.raised
           /\ gateway_calls' = Append(gateway_calls,
                  [tool_name |-> tc.function.name, params |-> p.args,
                   caller |-> "message_handler"])
    /\ pc' = "mcp_call_tool"
    /\ UNCHANGED <<bot_messages, rescued_id_from_text, tool_calls, tc_index, ai_request,
                   ai_calls, next_id, turns, ret>>
    /\ BotUnchanged

BotToolReturns(result) ==
    /\ pc = "mcp_call_tool"
    /\ bot_messages # <<>>
    /\ bot_messages' = Append(bot_messages,
                          ToolMessage(tool_calls[tc_index], <<json_dumps(result)>>))
    /\ tc_index' = tc_index + 1
    /\ pc' = "for tool_call"
    /\ UNCHANGED <<rescued_id_from_text, tool_calls, ai_request, ai_calls,
                   gateway_calls, next_id, turns, ret>>
    /\ BotUnchanged

BotToolRaises(e) ==
    /\ pc = "mcp_call_tool"
    /\ bot_messages # <<>>
    /\ bot_messages' = Append(bot_messages,
                          ToolMessage(tool_calls[tc_index],
                                      ErrorContent(tool_calls[tc_index].function.name, e)))
    /\ tc_index' = tc_index + 1
    /\ pc' = "for tool_call"
    /\ UNCHANGED <<rescued_id_from_text, tool_calls, ai_request, ai_calls,
                   gateway_calls, next_id, turns, ret>>
    /\ BotUnchanged

\* The for loop is over: back to the head of `while True`.
BotNextRound ==
    /\ pc = "for tool_call"
    /\ tc_index > Len(tool_calls)
    /\ pc' = "get_ai_completion"
    /\ ai_request' = [messages |-> bot_messages, tools |-> user_state["mcp_tools"]]
    /\ ai_calls' = ai_calls + 1
    /\ UNCHANGED <<bot_messages, rescued_id_from_text, tool_calls, tc_index,
                   gateway_calls, next_id, turns, ret>>
    /\ BotUnchanged

BotNext ==
    \/ \E text \in BotTexts : message_handler(text)
    \/ BotAiReturnsNothing
    \/ \E content \in {None, <<"Dealer 7 is Shree Traders.">>} : BotAiReturnsFinal(content)
    \/ \E n \in 1..(MaxToolCalls - ToolCallsIssued) :
         \E calls \in BotToolCallLists(next_id, n) : BotAiReturnsToolCalls(calls)
    \/ BotToolCallFails
    \/ BotCallsGateway
    \/ \E result \in ToolResults : BotToolReturns(result)
    \/ \E e \in Exceptions : BotToolRaises(e)
    \/ BotNextRound

BotSpec == BotInit /\ [][BotNext]_vars

(***************************************************************************)
(* Properties.                                                             *)
(***************************************************************************)
Staged(state) == Has(state, STORED_PAYLOAD_KEY) /\ Has(state, STORED_TOOL_NAME_KEY)
NothingStaged(state) == ~Has(state, STORED_PAYLOAD_KEY) /\ ~Has(state, STORED_TOOL_NAME_KEY)
InText(tok, text) == \E i \in 1..Len(text) : text[i] = tok
ExecutorCall(state) ==
    [tool_name |-> state[STORED_TOOL_NAME_KEY], params |-> state[STORED_PAYLOAD_KEY],
     caller |-> "execute_pending_post_core"]

\* C1: no write takes effect without confirmation: every call_tool invocation
\* that names a write operation is made by the Pending-Write Executor; the
\* tool-call loop of handle never sends a write operation to the gateway.
C1_NoWriteWithoutConfirmation ==
    \A i \in 1..Len(gateway_calls) :
        gateway_calls[i].tool_name \in ALLOWED_POST_TOOLS
            => gateway_calls[i].caller = "execute_pending_post_core"

\* C2: whenever handle has returned awaitingConfirmation = true, the next
\* confirm on the session (nothing in between) invokes call_tool exactly once
\* with the stored operation name and the stored payload, and the confirm
\* then reports wasExecuted = true.
C2_StagedThenConfirmedIsExecuted ==
    [][ /\ (ret.op = "handle" /\ ret.flag /\ ConfirmPost)
            => /\ pc' = "execute_pending_post"
               /\ gateway_calls' = Append(gateway_calls, ExecutorCall(user_state))
        /\ (pc = "execute_pending_post" /\ pc' = "idle")
            => (ret'.op = "confirm_post" /\ ret'.flag /\ gateway_calls' = gateway_calls)
      ]_vars

\* C3: a staged write is consumed exactly once: a confirm on a session that
\* holds a staged write calls the gateway (once) and clears the pending slot;
\* a confirm on a session that holds none returns wasExecuted = false and
\* makes no gateway call.
C3_StagedWriteConsumedExactlyOnce ==
    [][ ConfirmPost =>
          IF Staged(user_state)
          THEN /\ Len(gateway_calls') = Len(gateway_calls) + 1
               /\ gateway_calls'[Len(gateway_calls')].caller = "execute_pending_post_core"
               /\ NothingStaged(user_state')
          ELSE /\ gateway_calls' = gateway_calls
               /\ ret'.op = "confirm_post" /\ ~ret'.flag
               /\ NothingStaged(user_state')
      ]_vars

\* C4: in every reachable session state the pending payload key is present
\* if and only if the pending operation-name key is present.
C4_PendingKeysTogether ==
    Has(user_state, STORED_PAYLOAD_KEY) <=> Has(user_state, STORED_TOOL_NAME_KEY)

\* Reached: a write staged again after an earlier one was popped by a confirm.
C4_Witness ==
    /\ Staged(user_state)
    /\ \E i \in 1..Len(gateway_calls) : gateway_calls[i].caller = "execute_pending_post_core"

\* C5: a confirm on a session with nothing staged returns wasExecuted = false
\* with empty text, confirm_post renders it as "Nothing to submit.", the
\* gateway is not called and the session state is unchanged.
C5_ConfirmWithNothingStaged ==
    [][ (ConfirmPost /\ NothingStaged(user_state))
          => /\ pc' = "idle"
             /\ ret'.op = "confirm_post"
             /\ ~ret'.flag
             /\ ret'.core_text = <<>>
             /\ ret'.text = <<"Nothing to submit.">>
             /\ gateway_calls' = gateway_calls
             /\ user_state' = user_state
      ]_vars

\* Reached: a confirm answered on a session on which nothing was ever staged.
C5_Witness ==
    /\ ret.op = "confirm_post" /\ ~ret.flag
    /\ pc = "idle"
    /\ turns = 0
    /\ gateway_calls = <<>>

\* C6: when the gateway raises on a confirmed write, the executor returns
\* wasExecuted = true with an error text that includes the operation name and
\* the error detail, makes no second call_tool attempt, and leaves the pending
\* slot cleared, so that a following confirm returns wasExecuted = false.
SubmissionFailed(r) ==
    r.op = "confirm_post" /\ r.flag /\ InText("(cross mark) Submission failed for ", r.text)

C6_FailedWriteNotRetried ==
    [][ /\ \A e \in Exceptions :
             PostRaises(e)
               => /\ ret'.op = "confirm_post" /\ ret'.flag
                  /\ SubmissionFailed(ret')
                  /\ InText(post_call.tool_name, ret'.text)
                  /\ InText(e, ret'.text)
                  /\ gateway_calls' = gateway_calls
                  /\ pc' = "idle"
                  /\ NothingStaged(user_state')
        /\ (SubmissionFailed(ret) /\ ConfirmPost)
               => /\ ~ret'.flag
                  /\ ret'.op = "confirm_post"
                  /\ gateway_calls' = gateway_calls
                  /\ pc' = "idle"
      ]_vars

\* Reached: a confirmed write failed at the gateway and the next confirm was
\* answered.
C6_Witness ==
    /\ SubmissionFailed(ret)
    /\ pc = "idle"
    /\ NothingStaged(user_state)
    /\ Len(gateway_calls) = 1

(***************************************************************************)
(* Rounds in the message history: an assistant message that carries        *)
(* tool-call requests, and the tool messages that directly follow it.      *)
(***************************************************************************)
RequestRounds ==
    {p \in 1..Len(Messages) : Messages[p].role = "assistant" /\ Messages[p].tool_calls # <<>>}
ToolPositions == {q \in 1..Len(Messages) : Messages[q].role = "tool"}
ToolMessagesAfter(p) ==
    CHOOSE k \in 0..(Len(Messages) - p) :
        /\ \A i \in 1..k : Messages[p + i].role = "tool"
        /\ p + k = Len(Messages) \/ Messages[p + k + 1].role # "tool"
\* The round whose calls are being invoked right now.
RoundOpen(p) == pc = "mcp_call_tool" /\ p + ToolMessagesAfter(p) = Len(Messages)

\* C7: for every round in which the assistant message carries tool-call
\* requests, the number of tool messages appended in the round equals the
\* number of requests, and each tool message carries a tool_call_id that
\* matches exactly one request of the round and is used by no other tool
\* message.
C7_OneToolMessagePerRequest ==
    \A p \in RequestRounds :
        ~RoundOpen(p) =>
            LET calls == Messages[p].tool_calls
            IN  /\ ToolMessagesAfter(p) = Len(calls)
                /\ \A i \in 1..ToolMessagesAfter(p) :
                     /\ Cardinality({j \in 1..Len(calls) :
                                       calls[j].id = Messages[p + i].tool_call_id}) = 1
                     /\ \A q \in ToolPositions :
                          Messages[q].tool_call_id = Messages[p + i].tool_call_id => q = p + i

\* The gateway invocations a round has made so far, as the provider listed
\* them: one per tool message of the round, and the call in flight.
RoundInvocations(p) ==
    LET calls == Messages[p].tool_calls
        n == ToolMessagesAfter(p) + (IF RoundOpen(p) THEN 1 ELSE 0)
    IN  [i \in 1..n |-> calls[i].function.name]

RECURSIVE InvocationsUpTo(_)
InvocationsUpTo(p) ==
    IF p = 0 THEN <<>>
    ELSE InvocationsUpTo(p - 1) \o (IF p \in RequestRounds THEN RoundInvocations(p) ELSE <<>>)

IsLoopCall(c) == c.caller = "handle"
LoopCalls == SelectSeq(gateway_calls, IsLoopCall)

\* C8: within a round the gateway is invoked for the requested calls one at a
\* time in the order the provider listed them, and the tool messages are
\* appended in that same order, directly after the assistant message that
\* requested them.
C8_CallsAndResultsInProviderOrder ==
    /\ \A p \in RequestRounds :
         LET calls == Messages[p].tool_calls
             k == ToolMessagesAfter(p)
         IN  /\ k <= Len(calls)
             /\ \A i \in 1..k : Messages[p + i].tool_call_id = calls[i].id
    /\ \A q \in ToolPositions :
         \E p \in RequestRounds : p < q /\ q <= p + ToolMessagesAfter(p)
    /\ [i \in 1..Len(LoopCalls) |-> LoopCalls[i].tool_name] = InvocationsUpTo(Len(Messages))
    /\ pc = "mcp_call_tool" =>
         /\ RequestRounds # {}
         /\ \E p \in RequestRounds :
              /\ RoundOpen(p)
              /\ Messages[p].tool_calls = tool_calls
              /\ tc_index = ToolMessagesAfter(p) + 1

\* Reached: a round of two different requests, both answered, in order.
C8_Witness ==
    \E p \in RequestRounds :
        /\ Len(Messages[p].tool_calls) = 2
        /\ ToolMessagesAfter(p) = 2
        /\ Messages[p].tool_calls[1].function.name # Messages[p].tool_calls[2].function.name
        /\ pc = "get_ai_completion"

\* C9: the provider is invoked exactly once per round with the full session
\* history, and is never invoked for the next round before a tool message for
\* every tool call of the current round has been appended.
C9_ProviderSeesEveryResult ==
    /\ pc = "get_ai_completion" =>
         /\ ai_request.messages = Messages
         /\ \A p \in RequestRounds : ToolMessagesAfter(p) = Len(Messages[p].tool_calls)
    /\ Cardinality({p \in 1..Len(Messages) : Messages[p].role = "assistant"})
         + (IF pc = "get_ai_completion" THEN 1 ELSE 0) <= ai_calls

\* C10: when the gateway raises for a requested call, handle appends one tool
\* message for that call id whose content is an error string naming the tool,
\* still invokes the remaining calls of the round, and continues with the
\* next provider round instead of ending the turn.
C10_ToolErrorDoesNotEndTurn ==
    [][ \A e \in Exceptions :
          ToolRaises(e) =>
            LET tc == tool_calls[tc_index]
            IN  /\ Messages' = Append(Messages,
                       [role |-> "tool", tool_call_id |-> tc.id,
                        content |-> <<"Error executing tool ", tc.function.name, ": ", e>>])
                /\ IF tc_index < Len(tool_calls)
                   THEN /\ pc' = "mcp_call_tool"
                        /\ tc_index' = tc_index + 1
                        /\ Len(gateway_calls') = Len(gateway_calls) + 1
                        /\ gateway_calls'[Len(gateway_calls')].tool_name
                             = tool_calls[tc_index + 1].function.name
                   ELSE /\ pc' = "get_ai_completion"
                        /\ ai_calls' = ai_calls + 1
                        /\ gateway_calls' = gateway_calls
      ]_vars

(***************************************************************************)
(* The step that begins a tool call: the provider's answer with requests   *)
(* (its first call), or a gateway answer that is not the round's last (the *)
(* next call).                                                             *)
(***************************************************************************)
RequestsAnswer ==
    /\ pc = "get_ai_completion"
    /\ Len(Messages') = Len(Messages) + 1
    /\ Messages'[Len(Messages')].role = "assistant"
    /\ Messages'[Len(Messages')].tool_calls # <<>>
Unparsable(raw) == raw = "" \/ json_loads_doc(raw).kind = "error"
InvokedWithEmptyMapping(tc) ==
    /\ pc' = "mcp_call_tool"
    /\ gateway_calls' = Append(gateway_calls,
           [tool_name |-> tc.function.name, params |-> <<>>, caller |-> "handle"])
    /\ ret' = ret

\* C11: when a tool call's arguments string fails to parse as JSON, or is
\* absent, handle invokes the gateway for that call with an empty argument
\* mapping and the turn continues.
C11_UnparsableArgumentsGiveEmptyMapping ==
    [][ /\ RequestsAnswer =>
             LET tc == Messages'[Len(Messages')].tool_calls[1]
             IN  Unparsable(tc.function.arguments) => InvokedWithEmptyMapping(tc)
        /\ (pc = "mcp_call_tool" /\ tc_index < Len(tool_calls)) =>
             LET tc == tool_calls[tc_index + 1]
             IN  Unparsable(tc.function.arguments) => InvokedWithEmptyMapping(tc)
      ]_vars

\* Reached: a round of two calls, one with no arguments string and one with
\* an unparsable one, both sent to the gateway with {} and both answered.
C11_Witness ==
    /\ pc = "get_ai_completion"
    /\ Len(gateway_calls) = 2
    /\ gateway_calls[1].params = <<>> /\ gateway_calls[2].params = <<>>
    /\ \E p \in RequestRounds :
         /\ Len(Messages[p].tool_calls) = 2
         /\ Messages[p].tool_calls[1].function.arguments = ""
         /\ Messages[p].tool_calls[2].function.arguments = JInvalid
         /\ ToolMessagesAfter(p) = 2

\* C12: no exception escapes handle to the transport: for every provider
\* answer and every gateway outcome, tool-call arguments that parse to a JSON
\* value that is not a mapping included, handle returns a
\* (displayText, awaitingConfirmation) pair.
C12_NoExceptionEscapesHandle ==
    ret.op = "handle" => ~ret.raised

NothingMessage == <<"Model returned nothing. Try again.">>

\* C13: when the provider yields nothing, handle ends the turn with the fixed
\* message and awaitingConfirmation = false, appends no assistant or tool
\* message, leaves the pending slot unchanged, and a following handle call on
\* the session proceeds normally.
C13_ProviderYieldsNothing ==
    [][ /\ AiReturnsNothing
             => /\ pc' = "idle"
                /\ ret'.op = "handle" /\ ret'.text = NothingMessage
                /\ ~ret'.flag /\ ~ret'.raised
        /\ (pc = "get_ai_completion" /\ pc' = "idle" /\ ret'.text = NothingMessage)
             => /\ Messages' = Messages
                /\ Has(user_state', STORED_PAYLOAD_KEY) = Has(user_state, STORED_PAYLOAD_KEY)
                /\ Has(user_state', STORED_TOOL_NAME_KEY) = Has(user_state, STORED_TOOL_NAME_KEY)
                /\ user_state' = user_state
        /\ (pc = "idle" /\ ret.op = "handle" /\ ret.text = NothingMessage)
             => \A text \in UserTexts :
                  Handle(text) =>
                    /\ pc' = "get_ai_completion"
                    /\ Messages' = Append(Messages, UserMessage(text))
                    /\ ai_request'.messages = Messages'
      ]_vars

\* Reached: the provider yielded nothing in a turn that followed the staging
\* of a write; the write is still staged.
C13_Witness ==
    /\ pc = "idle"
    /\ ret.op = "handle" /\ ret.text = NothingMessage
    /\ Staged(user_state)
    /\ Messages[Len(Messages)].role = "user"

\* Provider calls of the turn in progress (or of the last turn).
UserPositions == {p \in 1..Len(Messages) : Messages[p].role = "user"}
TurnProviderCalls ==
    Cardinality({p \in 1..Len(Messages) :
                    /\ Messages[p].role = "assistant"
                    /\ \A u \in UserPositions : u < p})
      + (IF pc = "get_ai_completion" THEN 1 ELSE 0)

\* C14 as stated, for the cap N = MaxAiCalls - 1: the tool-call cycle is
\* bounded, every handle invocation calls the provider at most N times and
\* then returns, whatever the provider answers.
C14_CycleBounded ==
    UserPositions # {} => TurnProviderCalls <= MaxAiCalls - 1

\* C14 amended: the cycle has no bound of its own.  Every round whose calls
\* have all been answered is followed by another provider call, and handle
\* returns only on a provider answer: nothing, or a message without tool-call
\* requests.
C14_CycleEndsOnlyOnProviderAnswer ==
    [][ /\ (pc = "mcp_call_tool" /\ tc_index = Len(tool_calls))
             => /\ pc' = "get_ai_completion"
                /\ ai_calls' = ai_calls + 1
                /\ ai_request'.messages = Messages'
                /\ ret' = ret
        /\ (pc # "idle" /\ pc' = "idle" /\ ret'.op = "handle" /\ ~ret'.raised)
             => /\ pc = "get_ai_completion"
                /\ \/ Messages' = Messages
                   \/ /\ Len(Messages') = Len(Messages) + 1
                      /\ Messages'[Len(Messages')].role = "assistant"
                      /\ Messages'[Len(Messages')].tool_calls = <<>>
      ]_vars

\* Reached: one turn in which the provider was called again after a round of
\* tool calls.
C14_Witness ==
    /\ turns = 1
    /\ TurnProviderCalls = 2
    /\ ToolPositions # {}

\* C15: handle terminates whenever the provider eventually answers with
\* nothing or with a message carrying no tool-call requests and every gateway
\* call returns or raises: every started turn eventually ends.
C15_TurnTerminates ==
    (pc # "idle") ~> (pc = "idle" /\ ret.op = "handle")

\* Reached: a turn that went through a round of tool calls and returned.
C15_Witness ==
    /\ pc = "idle"
    /\ ret.op = "handle" /\ ~ret.raised
    /\ ToolPositions # {}
    /\ Messages[Len(Messages)].role = "assistant"

\* C16: for every input mapping the scrub returns exactly the entries whose
\* key is not one of the ten schema keys and whose value is not null, with
\* each kept key's value; it does not change its input; applied to its own
\* result it returns that result.
C16_SanitizerKeepsExactly ==
    [][ Len(fn_result') = Len(fn_result) + 1 =>
          LET input == IF fn_result = <<>> THEN fn_args.args ELSE fn_result[1]
              output == fn_result'[Len(fn_result')]
              kept == {k \in DOMAIN input :
                          /\ k \notin {"inputSchema", "name", "parameters", "title",
                                       "description", "outputSchema", "icons", "_meta",
                                       "annotations", "required"}
                          /\ input[k] # "null"}
          IN  /\ DOMAIN output = kept
              /\ \A k \in kept : output[k] = input[k]
              /\ fn_args' = fn_args
              /\ fn_result # <<>> => (output = input /\ fn_result'[1] = fn_result[1])
      ]_vars

\* Reached: a mapping with a schema key, a null value and a zero value,
\* scrubbed twice; only the zero-valued entry is left, both times.
C16_Witness ==
    /\ Len(fn_result) = 2
    /\ DOMAIN fn_args.args = {"inputSchema", "region", "userId"}
    /\ fn_args.args["region"] = "null"
    /\ fn_args.args["userId"] = "0"
    /\ fn_result[1] = ("userId" :> "0")
    /\ fn_result[2] = ("userId" :> "0")

\* The first marker block of a text: the leftmost opening marker and the
\* first closing marker after it.
HasBlock(text) ==
    \E i, j \in 1..Len(text) : i < j /\ text[i] = OPEN_MARKER /\ text[j] = CLOSE_MARKER
BlockContent(text) ==
    LET i == CHOOSE a \in 1..Len(text) :
                 /\ text[a] = OPEN_MARKER
                 /\ \A b \in 1..(a - 1) : text[b] # OPEN_MARKER
        j == CHOOSE a \in (i + 1)..Len(text) :
                 /\ text[a] = CLOSE_MARKER
                 /\ \A b \in (i + 1)..(a - 1) : text[b] # CLOSE_MARKER
    IN  SubSeq(text, i + 1, j - 1)
ExtractorCalled == fn_result # <<>> /\ "final_answer" \in DOMAIN fn_args
\* The extractor returned (False, the text it was given, None, None) and the
\* session is as it was.
Rejected ==
    /\ fn_result[1] = [is_confirmation_request |-> FALSE,
                       display_text |-> fn_args.final_answer,
                       tool_name |-> NoneStr, payload |-> NoneDict]
    /\ user_state = fn_args.user_state

\* C17: the extractor called on a final text without the opening marker, or
\* with it and no closing marker after it, returns (false, the same text,
\* absent, absent) and leaves both pending keys of the session as they were.
C17_NoBlockLeavesStateAlone ==
    (ExtractorCalled /\ ~HasBlock(fn_args.final_answer)) => Rejected

\* Reached: a text with an opening marker and a payload but no closing
\* marker, on a session that holds a staged write, which is still staged.
C17_Witness ==
    /\ ExtractorCalled
    /\ fn_args.final_answer = <<"Reply Y to submit.", OPEN_MARKER, JDvr>>
    /\ Staged(fn_args.user_state)
    /\ user_state = StagedSession

\* C18: when the content of the marker block fails to decode as JSON or
\* decodes to anything but a mapping, the extractor returns (false, the
\* original text with its markers, absent, absent), stores nothing and leaves
\* a previously staged write unchanged.
C18_UndecodableBlockRejected ==
    (ExtractorCalled /\ HasBlock(fn_args.final_answer)
       /\ json_loads(Strip(BlockContent(fn_args.final_answer))).kind # "dict")
      => Rejected

\* Reached: a block that holds a JSON list, on a session that holds a staged
\* write, which is still staged.
C18_Witness ==
    /\ ExtractorCalled
    /\ fn_args.final_answer = <<"Reply Y to submit.", OPEN_MARKER, JList, CLOSE_MARKER>>
    /\ user_state = StagedSession

\* C19: every marker block with more than 50,000 characters between the
\* markers is rejected, nothing staged and the text returned unchanged,
\* whatever the characters are (whitespace around a small object included);
\* a block of at most 50,000 characters is not rejected for its size.
C19_OversizedBlockRejected ==
    (ExtractorCalled /\ HasBlock(fn_args.final_answer)) =>
        LET content == BlockContent(fn_args.final_answer)
        IN  IF StrLen(content) > 50000
            THEN Rejected
            ELSE json_loads(Strip(content)).kind = "dict"
                   => fn_result[1].is_confirmation_request

\* C20: when the payload carries the hint __tool with a string value in the
\* closed set, the classified name is the hint, whatever signature fields the
\* payload has; a hint that is not a string or not in the set is ignored: the
\* name is the one the same payload gets without the hint field.
C20_ValidHintWins ==
    fn_result # <<>> /\ fn_args \in Payloads =>
        LET name == fn_result[1]
            hinted == "__tool" \in DOMAIN fn_args
        IN  IF hinted /\ fn_args["__tool"] = "\"post_tvr_report\"" THEN name = "post_tvr_report"
            ELSE IF hinted /\ fn_args["__tool"] = "\"post_dvr_report\"" THEN name = "post_dvr_report"
            ELSE IF hinted /\ fn_args["__tool"] = "\"post_sales_order\"" THEN name = "post_sales_order"
            ELSE /\ name = _pick_tool_name(Pop(fn_args, "__tool"))
                 /\ (Has(fn_args, "siteNameConcernedPerson") /\ Has(fn_args, "clientsRemarks"))
                      => name = "post_tvr_report"

\* Reached: a payload with the hint post_dvr_report and the signature fields
\* of a TVR report, classified as post_dvr_report.
C20_Witness ==
    /\ fn_result = <<"post_dvr_report">>
    /\ fn_args = [k \in {"__tool", "siteNameConcernedPerson", "clientsRemarks"} |->
                    IF k = "__tool" THEN "\"post_dvr_report\"" ELSE "1"]

\* A hint the classifier accepts: a string of the closed set.
ValidHint(payload) ==
    /\ "__tool" \in DOMAIN payload
    /\ payload["__tool"] \in {"\"post_tvr_report\"", "\"post_dvr_report\"", "\"post_sales_order\""}
TvrSignature(payload) == {"siteNameConcernedPerson", "clientsRemarks"} \subseteq DOMAIN payload
DvrSignature(payload) == {"dealerTotalPotential", "todayCollectionRupees"} \subseteq DOMAIN payload
SalesSignature(payload) == {"orderTotal", "estimatedDelivery"} \subseteq DOMAIN payload

\* C21: without a valid hint the classification follows a fixed priority: the
\* TVR signature gives post_tvr_report even if the DVR or the sales-order
\* signature matches too; otherwise the DVR signature gives post_dvr_report
\* even if the sales-order signature matches too; otherwise the sales-order
\* signature gives post_sales_order.
C21_HeuristicPriority ==
    (fn_result # <<>> /\ fn_args \in Payloads /\ ~ValidHint(fn_args)) =>
        /\ TvrSignature(fn_args) => fn_result[1] = "post_tvr_report"
        /\ (~TvrSignature(fn_args) /\ DvrSignature(fn_args)) => fn_result[1] = "post_dvr_report"
        /\ (~TvrSignature(fn_args) /\ ~DvrSignature(fn_args) /\ SalesSignature(fn_args))
             => fn_result[1] = "post_sales_order"

\* Reached: a payload with all six signature fields and a hint outside the
\* closed set, classified as post_tvr_report.
C21_Witness ==
    /\ fn_result = <<"post_tvr_report">>
    /\ fn_args \in Payloads
    /\ DOMAIN fn_args = SignatureFields \cup {"__tool"}
    /\ fn_args["__tool"] = "\"get_dealers_list\""

ClosedSet == {"post_tvr_report", "post_dvr_report", "post_sales_order"}
ExecutorCalls == {i \in 1..Len(gateway_calls) : gateway_calls[i].caller = "execute_pending_post_core"}

\* C22: in every reachable session state a stored pending operation name is
\* one of the closed set; a payload with no valid hint and no matching
\* signature is staged as post_sales_order; no payload content makes the
\* executor call a tool outside the set.
C22_StoredNameInClosedSet ==
    /\ Has(user_state, STORED_TOOL_NAME_KEY) => user_state[STORED_TOOL_NAME_KEY] \in ClosedSet
    /\ Staged(user_state) =>
         LET payload == user_state[STORED_PAYLOAD_KEY]
         IN  (~ValidHint(payload) /\ ~TvrSignature(payload) /\ ~DvrSignature(payload)
                /\ ~SalesSignature(payload))
               => user_state[STORED_TOOL_NAME_KEY] = "post_sales_order"
    /\ \A i \in ExecutorCalls : gateway_calls[i].tool_name \in ClosedSet

\* Reached: a payload whose hint names get_dealers_list was staged, confirmed
\* and sent to the gateway as post_sales_order.
C22_Witness ==
    \E i \in ExecutorCalls :
        /\ Has(gateway_calls[i].params, "__tool")
        /\ gateway_calls[i].params["__tool"] = "\"get_dealers_list\""
        /\ gateway_calls[i].tool_name = "post_sales_order"

\* The assistant messages of a history whose marker block was accepted.
AcceptedBlock(content) ==
    HasBlock(content) /\ json_loads(Strip(BlockContent(content))).kind = "dict"
BlockPayload(content) == json_loads(Strip(BlockContent(content))).val
StagingPositions(msgs) ==
    {p \in 1..Len(msgs) : msgs[p].role = "assistant" /\ AcceptedBlock(msgs[p].content)}
LatestStaging(msgs) ==
    CHOOSE p \in StagingPositions(msgs) : \A q \in StagingPositions(msgs) : q <= p

\* C23: a session holds at most one pending write: a successful extraction
\* replaces both the payload and the operation name of any earlier
\* unconfirmed write, and a later confirm executes only the most recently
\* staged write; the replaced one is never executed.
C23_LatestStagingReplacesEarlier ==
    [][ /\ (pc = "get_ai_completion" /\ ret'.op = "handle" /\ ret'.flag)
             => LET payload == BlockPayload(Messages'[Len(Messages')].content)
                IN  /\ user_state'[STORED_PAYLOAD_KEY] = payload
                    /\ user_state'[STORED_TOOL_NAME_KEY] = _pick_tool_name(payload)
                    /\ DOMAIN user_state' = {"messages", "mcp_tools", STORED_PAYLOAD_KEY,
                                             STORED_TOOL_NAME_KEY}
        /\ (ConfirmPost /\ gateway_calls' # gateway_calls)
             => /\ StagingPositions(Messages) # {}
                /\ LET payload == BlockPayload(Messages[LatestStaging(Messages)].content)
                   IN  gateway_calls' = Append(gateway_calls,
                           [tool_name |-> _pick_tool_name(payload), params |-> payload,
                            caller |-> "execute_pending_post_core"])
      ]_vars

\* Reached: a sales order was staged, a DVR report was staged over it, and
\* the confirm sent the DVR report only.
C23_Witness ==
    /\ pc = "idle"
    /\ Cardinality(StagingPositions(Messages)) = 2
    /\ \E p \in StagingPositions(Messages) :
         /\ p < LatestStaging(Messages)
         /\ BlockPayload(Messages[p].content) = json_loads_doc(JSales).val
    /\ BlockPayload(Messages[LatestStaging(Messages)].content) = json_loads_doc(JDvr).val
    /\ Len(gateway_calls) = 1
    /\ gateway_calls[1].tool_name = "post_dvr_report"
    /\ gateway_calls[1].params = json_loads_doc(JDvr).val
    /\ NothingStaged(user_state)

\* The text before the first marker block and the text after it.
BeforeBlock(text) ==
    LET i == CHOOSE a \in 1..Len(text) :
                 text[a] = OPEN_MARKER /\ \A b \in 1..(a - 1) : text[b] # OPEN_MARKER
    IN  SubSeq(text, 1, i - 1)
AfterBlock(text) ==
    SubSeq(text, Len(BeforeBlock(text)) + Len(BlockContent(text)) + 3, Len(text))
HasMarker(text) == InText(OPEN_MARKER, text) \/ InText(CLOSE_MARKER, text)
ExtractionSucceeded == ExtractorCalled /\ fn_result[1].is_confirmation_request
ReturnsNameAndPayload ==
    /\ fn_result[1].payload = BlockPayload(fn_args.final_answer)
    /\ fn_result[1].tool_name \in ClosedSet
    /\ Staged(user_state)
    /\ fn_result[1].tool_name = user_state[STORED_TOOL_NAME_KEY]
    /\ fn_result[1].payload = user_state[STORED_PAYLOAD_KEY]

IsY(text) == Upper(Strip(text)) = <<"Y">>
\* The step invoked the Pending-Write Executor: it popped the pending keys,
\* and called the gateway or answered that nothing was staged.
ExecutorInvoked == pc' = "execute_pending_post" \/ ret'.op = "confirm_post"
NormalTurn(text) ==
    /\ pc' = "get_ai_completion"
    /\ Messages' = Append(Messages, UserMessage(Strip(text)))

\* C25: a user message triggers the Pending-Write Executor if and only if its
\* content, trimmed and compared case-insensitively, is exactly "Y"; every
\* other message ("N" included) is handled as a normal conversational turn,
\* never invokes the executor and leaves the pending slot unchanged.
C25_ExecutorTriggeredIffY ==
    [][ \A text \in MessageTexts :
          (on_send_message(text) \/ handle_post_execution_reply(text)) =>
             /\ IsY(text) <=> ExecutorInvoked
             /\ (~IsY(text) /\ Strip(text) # <<>>) =>
                  /\ on_send_message(text) => NormalTurn(text)
                  /\ Has(user_state', STORED_PAYLOAD_KEY) = Has(user_state, STORED_PAYLOAD_KEY)
                  /\ Has(user_state', STORED_TOOL_NAME_KEY) = Has(user_state, STORED_TOOL_NAME_KEY)
      ]_vars

\* The sessions other than the one task t works for, and what a session
\* (a sid) owns: the dict CLIENT_STATES holds for it.
OtherSessions(t) == DOMAIN CLIENT_STATES \ {tasks[t].sid}

\* C26: sessions are independent: a step of handle or confirm_post made for
\* one session leaves the dict of every other session as it was (message
\* history and pending slot included) and leaves every dict other than the
\* task's own as it was; no two sessions hold the same dict, and no task
\* works on the dict of a session other than its own; the one object the
\* sessions share is the cached tool list, which no such step changes.
C26_SessionsIndependent ==
    [][ /\ \A t \in TaskIds : TaskStep(t) =>
              /\ \A sid \in OtherSessions(t) :
                    /\ sid \in DOMAIN CLIENT_STATES'
                    /\ CLIENT_STATES'[sid] = CLIENT_STATES[sid]
                    /\ heap'[CLIENT_STATES'[sid]] = heap[CLIENT_STATES[sid]]
              /\ \A ref \in DOMAIN heap : ref # tasks'[t].state => heap'[ref] = heap[ref]
              /\ TOOLS_CACHE' = TOOLS_CACHE
              /\ \A ref \in DOMAIN heap' : heap'[ref]["mcp_tools"] = TOOLS_CACHE
        /\ \A s1, s2 \in DOMAIN CLIENT_STATES' :
              s1 # s2 => CLIENT_STATES'[s1] # CLIENT_STATES'[s2]
        /\ \A t \in DOMAIN tasks' : \A sid \in DOMAIN CLIENT_STATES' :
              (tasks'[t].state # 0 /\ sid # tasks'[t].sid)
                  => tasks'[t].state # CLIENT_STATES'[sid]
      ]_vars

\* Two sessions have been worked on: one holds a staged write and a longer
\* history, the other holds its own history and nothing staged.
C26_Witness ==
    \E t1, t2 \in TaskIds :
        /\ tasks[t1].sid # tasks[t2].sid
        /\ tasks[t1].pc = "done" /\ tasks[t1].op = "handle"
        /\ tasks[t2].pc = "done" /\ tasks[t2].op = "confirm_post"
        /\ tasks[t1].sid \in DOMAIN CLIENT_STATES /\ tasks[t2].sid \in DOMAIN CLIENT_STATES
        /\ Staged(heap[CLIENT_STATES[tasks[t1].sid]])
        /\ Len(heap[CLIENT_STATES[tasks[t1].sid]]["messages"]) = 3
        /\ Len(heap[CLIENT_STATES[tasks[t2].sid]]["messages"]) = 1
        /\ t1 < t2

\* C27: a session serializes its own turns: for any one sid the adapter
\* never has two of ChatService.handle / ChatService.confirm_post in flight
\* (started and not yet returned) at the same time.
C27_SessionSerializesTurns ==
    \A t1, t2 \in TaskIds :
        (t1 # t2 /\ tasks[t1].sid = tasks[t2].sid) => ~(Running(t1) /\ Running(t2))

\* A confirm task that has made both pops of execute_pending_post_core, and
\* one that obtained exactly one of the two values.
Popped(t) ==
    /\ tasks[t].op = "confirm_post"
    /\ tasks[t].pc \in {"execute_pending_post", "done"}
ObtainedOne(t) ==
    (tasks[t].pending_payload = NoneDict) # (tasks[t].pending_tool_name = NoneStr)

\* C28: the executor's pop of the pending payload and of the operation name
\* is both-or-neither: of two confirms on one session, one obtains both
\* values and the other neither; it never happens that each of them obtains
\* one of the two values (so that the staged write is dropped unexecuted).
C28_PopIsBothOrNeither ==
    \A t1, t2 \in TaskIds :
        (/\ t1 # t2
         /\ Popped(t1) /\ Popped(t2)
         /\ tasks[t1].state = tasks[t2].state)
            => ~(ObtainedOne(t1) /\ ObtainedOne(t2))

\* Caller c returns (or raises) in this step; caller c is created by it.
Returns(c) ==
    /\ callers'[c].pc = "done"
    /\ c \in DOMAIN callers => callers[c].pc # "done"
Enters(c) == c \notin DOMAIN callers

\* C29: the gateway connection is initialized once and reused: at no time
\* is more than one connection open or being opened, and a setup_mcp_client
\* that returns gives the published client, whose connection is open;
\* when close_mcp_client ends, by return or by the error of the teardown,
\* no client is published; an mcp_call_tool made while no client is
\* published raises RuntimeError, and one that goes through uses the
\* published client, whose connection has not been closed.
C29_InitializedOnceAndReused ==
    [][ /\ Cardinality(OpenConnections') <= 1
        /\ \A c \in DOMAIN callers' :
              /\ (Returns(c) /\ callers'[c].op = "setup_mcp_client" /\ callers'[c].raised = "")
                    => /\ callers'[c].ret = _mcp_client'
                       /\ callers'[c].ret # NoClient
                       /\ connections'[callers'[c].ret] = "open"
              /\ (Returns(c) /\ callers'[c].op = "close_mcp_client")
                    => _mcp_client' = NoClient
              /\ (Enters(c) /\ callers'[c].op = "mcp_call_tool")
                    => IF _mcp_client = NoClient
                       THEN callers'[c].pc = "done" /\ callers'[c].raised = "RuntimeError"
                       ELSE /\ callers'[c].pc = "call_tool"
                            /\ callers'[c].client = _mcp_client
                            /\ connections[_mcp_client] = "open"
      ]_vars

\* Two concurrent setups returned the same client over one connection, the
\* teardown raised, and a gateway call made afterwards failed.
C29_Witness ==
    /\ Len(callers) = 4
    /\ \A c \in 1..2 : callers[c].op = "setup_mcp_client" /\ callers[c].pc = "done"
    /\ callers[1].ret = 1 /\ callers[2].ret = 1
    /\ callers[3].op = "close_mcp_client" /\ callers[3].pc = "done" /\ callers[3].raised # ""
    /\ callers[4].op = "mcp_call_tool" /\ callers[4].raised = "RuntimeError"
    /\ connections = <<"aborted">>
    /\ _mcp_client = NoClient

IsPrefix(s, t) == Len(s) <= Len(t) /\ SubSeq(t, 1, Len(s)) = s

\* Every tool message follows, with only tool messages in between, an
\* assistant message whose tool_calls hold its id.
ToolMessagesFollowTheirRequest(msgs) ==
    \A i \in 1..Len(msgs) :
        msgs[i].role = "tool" =>
            \E j \in 1..(i - 1) :
                /\ msgs[j].role = "assistant"
                /\ \E k \in 1..Len(msgs[j].tool_calls) : msgs[j].tool_calls[k].id = msgs[i].tool_call_id
                /\ \A l \in (j + 1)..(i - 1) : msgs[l].role = "tool"

\* C30: the message history is append-only: over every step of handle and
\* of confirm_post the history before is a prefix of the history after and
\* its first message is the system message; handle appends the user message
\* first; the assistant message the provider returned is appended as it is,
\* with its tool_calls, and the tool messages of a round come after it.
C30_HistoryAppendOnly ==
    [][ /\ IsPrefix(Messages, Messages')
        /\ Messages'[1] = SystemMessage
        /\ \A text \in UserTexts :
              Handle(text) => Messages' = Append(Messages, UserMessage(text))
        /\ \A content \in FinalContents :
              AiReturnsFinal(content) => Messages' = Append(Messages, AssistantMessage(content, <<>>))
        /\ (pc = "get_ai_completion" /\ pc' = "mcp_call_tool")
              => Messages' = Append(Messages, AssistantMessage(None, tool_calls'))
        /\ (pc = "get_ai_completion" /\ ret' = HandleRaise("AttributeError") /\ ret' # ret)
              => /\ Len(Messages') = Len(Messages) + 1
                 /\ Messages'[Len(Messages')].role = "assistant"
                 /\ Messages'[Len(Messages')].tool_calls # <<>>
        /\ (pc = "mcp_call_tool")
              => /\ Len(Messages') = Len(Messages) + 1
                 /\ Messages'[Len(Messages')].role = "tool"
                 /\ Messages'[Len(Messages')].tool_call_id = tool_calls[tc_index].id
        /\ ToolMessagesFollowTheirRequest(Messages')
      ]_vars

\* A turn with a tool round and a staged final answer, then its confirm:
\* system, user, assistant with tool_calls, tool, assistant.
C30_Witness ==
    /\ Len(Messages) = 5
    /\ Messages[2].role = "user"
    /\ Messages[3].role = "assistant" /\ Messages[3].tool_calls # <<>>
    /\ Messages[4].role = "tool"
    /\ Messages[5].role = "assistant" /\ Messages[5].tool_calls = <<>>
    /\ ret.op = "confirm_post" /\ ret.flag

\* The pending slot of a session: the pending keys present, with their values.
PendingSlot(state) ==
    [k \in DOMAIN state \cap {STORED_PAYLOAD_KEY, STORED_TOOL_NAME_KEY} |-> state[k]]
\* A step in which handle returns (display_text, awaiting_confirmation).
HandleReturns == pc = "get_ai_completion" /\ pc' = "idle" /\ ret'.op = "handle" /\ ~ret'.raised
\* The answer that step appended, if it appended one.
AnswerAppended == Messages' # Messages
LastContent == Messages'[Len(Messages')].content

\* C31: handle returns awaiting_confirmation = true if and only if in this
\* turn it stored a payload and an operation name: true exactly when the
\* final answer held a block that parses to an object, and then the slot
\* holds that object and its name; false leaves the slot as it was.  When
\* it returns true both pending keys are present and the name is in the
\* closed set of write operations.
C31_AwaitingIffStored ==
    [][ HandleReturns =>
          /\ ret'.flag <=> (AnswerAppended /\ AcceptedBlock(LastContent))
          /\ ret'.flag =>
                /\ Staged(user_state')
                /\ user_state'[STORED_PAYLOAD_KEY] = BlockPayload(LastContent)
                /\ user_state'[STORED_TOOL_NAME_KEY] \in ClosedSet
          /\ ~ret'.flag => PendingSlot(user_state') = PendingSlot(user_state)
      ]_vars

\* Reached: a turn staged a write and returned true, and the next turn,
\* answered with a rejected block, returned false with the write still
\* staged.
C31_Witness ==
    /\ pc = "idle"
    /\ ret.op = "handle" /\ ~ret.flag
    /\ Staged(user_state)
    /\ Len(Messages) = 5
    /\ AcceptedBlock(Messages[3].content)
    /\ HasBlock(Messages[5].content) /\ ~AcceptedBlock(Messages[5].content)

\* A step of a turn that stages a write, and a step that is a confirm.
StagesWrite == HandleReturns /\ ret'.flag

\* C32: a staged write has no expiry and later conversation does not cancel
\* it: every step other than a confirm and other than a turn staging a new
\* write leaves the pending slot as it is, whatever the user text and
\* whether the answer is plain, holds a rejected block or is empty; and a
\* confirm made with a write staged executes that write.
C32_StagedWriteHasNoExpiry ==
    [][ /\ (Staged(user_state) /\ ~ConfirmPost /\ ~StagesWrite)
              => PendingSlot(user_state') = PendingSlot(user_state)
        /\ (Staged(user_state) /\ ConfirmPost)
              => /\ pc' = "execute_pending_post"
                 /\ gateway_calls' = Append(gateway_calls, ExecutorCall(user_state))
      ]_vars

\* A step of confirm_post: its start, or the end of its gateway call.
ConfirmStep == ConfirmPost \/ pc = "execute_pending_post"
PendingKeys == {STORED_PAYLOAD_KEY, STORED_TOOL_NAME_KEY}

\* C33: confirm_post changes only the pending slot: over each of its steps,
\* whether the write succeeds, fails or nothing is staged, the message
\* history, the tool list and every other key of the session stay as they
\* are; the text it returns is in no message of the history, and the
\* messages a later turn gives the provider are that history.
C33_ConfirmChangesOnlyPendingSlot ==
    [][ /\ ConfirmStep =>
              /\ Messages' = Messages
              /\ user_state'["mcp_tools"] = user_state["mcp_tools"]
              /\ DOMAIN user_state' \ PendingKeys = DOMAIN user_state \ PendingKeys
              /\ DOMAIN user_state' \subseteq DOMAIN user_state
        /\ (ret'.op = "confirm_post")
              => \A i \in 1..Len(Messages') :
                    /\ Messages'[i].content # ret'.text
                    /\ ret'.flag => Messages'[i].content # ret'.core_text
        /\ (pc' = "get_ai_completion") => ai_request'.messages = Messages'
      ]_vars

\* Reached: a write was staged and executed, and the provider is asked
\* again on the next turn with a history of four messages.
C33_Witness ==
    /\ pc = "get_ai_completion"
    /\ Len(gateway_calls) = 1
    /\ gateway_calls[1].caller = "execute_pending_post_core"
    /\ ret.op = "confirm_post" /\ ret.flag
    /\ Len(ai_request.messages) = 4
    /\ ai_request.messages[4].role = "user"

\* C34: CLIENT_STATES holds state only for connected clients: a sid whose
\* disconnect handler has run has no entry in CLIENT_STATES, whatever
\* background work was started for it before the disconnect.
C34_NoStateAfterDisconnect ==
    \A sid \in Sids : clients[sid] = "disconnected" => sid \notin DOMAIN CLIENT_STATES

\* The tokens of a text that are outside every marker block, in order.
InsideBlock(text, i) ==
    Cardinality({a \in 1..i : text[a] = OPEN_MARKER})
        > Cardinality({b \in 1..(i - 1) : text[b] = CLOSE_MARKER})
RECURSIVE OutsideBlocksUpTo(_, _)
OutsideBlocksUpTo(text, n) ==
    IF n = 0 THEN <<>>
    ELSE IF InsideBlock(text, n) THEN OutsideBlocksUpTo(text, n - 1)
         ELSE Append(OutsideBlocksUpTo(text, n - 1), text[n])
OutsideBlocks(text) == OutsideBlocksUpTo(text, Len(text))
BlockCount(text) == Cardinality({a \in 1..Len(text) : text[a] = OPEN_MARKER})

\* C35: of a final answer with several marker blocks only the first is
\* parsed. When it is an object, that object is staged and returned and the
\* display text is the answer without any of its blocks, stripped; when it
\* is not, the result is (False, the answer as given, None, None) and the
\* session is as it was, whatever the later blocks hold.
C35_OnlyFirstBlockParsed ==
    ExtractorCalled =>
        LET text == fn_args.final_answer
            r == fn_result[1]
        IN  IF AcceptedBlock(text)
            THEN /\ r.is_confirmation_request
                 /\ r.payload = BlockPayload(text)
                 /\ user_state[STORED_PAYLOAD_KEY] = BlockPayload(text)
                 /\ r.display_text = Strip(OutsideBlocks(text))
                 /\ ~HasMarker(r.display_text)
            ELSE /\ ~r.is_confirmation_request
                 /\ r.display_text = text
                 /\ r.payload = NoneDict
                 /\ r.tool_name = NoneStr
                 /\ user_state = fn_args.user_state

\* Reached: the first block holds a list and the second a valid daily-visit
\* report; nothing was staged on a fresh session.
C35_Witness ==
    /\ ExtractorCalled
    /\ BlockCount(fn_args.final_answer) = 2
    /\ BlockContent(fn_args.final_answer) = <<JList>>
    /\ AcceptedBlock(AfterBlock(fn_args.final_answer))
    /\ ~fn_result[1].is_confirmation_request
    /\ NothingStaged(user_state)

\* The for loop of message_handler is about to process a call of one of the
\* five *_by_id tools.
ByIdCall ==
    /\ pc = "for tool_call"
    /\ tc_index <= Len(tool_calls)
    /\ tool_calls[tc_index].function.name \in BY_ID_TOOLS
SanitizedEmpty(tc) ==
    /\ json_loads_doc(tc.function.arguments).kind = "dict"
    /\ cleaned_args(json_loads_doc(tc.function.arguments).val) = <<>>
\* The id the rescue is to inject: the first integer-valued raw argument,
\* or else the id parsed out of the user's text, or else None.
RescueId(tc) ==
    IF id_value_from_args(tc.function.arguments) # NoneStr
    THEN id_value_from_args(tc.function.arguments)
    ELSE rescued_id_from_text
ReachesGateway == gateway_calls' # gateway_calls
OneErrorAppended(tc) ==
    /\ Len(bot_messages') = Len(bot_messages) + 1
    /\ SubSeq(bot_messages', 1, Len(bot_messages)) = bot_messages
    /\ bot_messages'[Len(bot_messages')].role = "tool"
    /\ bot_messages'[Len(bot_messages')].tool_call_id = tc.id
    /\ bot_messages'[Len(bot_messages')].content[1] = "Error executing tool "
    /\ pc' = "for tool_call"
    /\ tc_index' = tc_index + 1

\* C36: a call of a *_by_id tool never reaches the gateway with empty
\* arguments. When the sanitized arguments are empty, the gateway is called
\* with the id of the first integer-valued raw argument, or else with the id
\* parsed out of the user's text, under the key of that tool; when there is
\* neither, the gateway is not called, one tool error message with the
\* call's id is appended and the loop goes on.
C36_ByIdCallNeverEmpty ==
    [][ ByIdCall =>
          LET tc == tool_calls[tc_index]
          IN  /\ ReachesGateway => gateway_calls'[Len(gateway_calls')].params # <<>>
              /\ (SanitizedEmpty(tc) /\ RescueId(tc) # NoneStr)
                    => gateway_calls' = Append(gateway_calls,
                           [tool_name |-> tc.function.name,
                            params |-> (rescue_key(tc.function.name) :> RescueId(tc)),
                            caller |-> "message_handler"])
              /\ (SanitizedEmpty(tc) /\ RescueId(tc) = NoneStr)
                    => ~ReachesGateway /\ OneErrorAppended(tc)
      ]_vars

====
